---- MODULE Spec2Model ----
(***************************************************************************)
(* Model of the Netilion API client: the token-lifecycle-aware request     *)
(* layer (netilion/client.py) and the response classification of the       *)
(* domain model (netilion/model.py, netilion/error.py).                    *)
(*                                                                         *)
(* NetilionTechnicalApiClient subclasses requests_oauthlib.OAuth2Session.  *)
(* The inherited methods it calls through super() are modelled by the      *)
(* SessionRequest, fetch_token and refresh_token, following its contract:   *)
(*   - request(): when a token is held and not withheld, the               *)
(*     "protected_request" compliance hooks run and the bearer token is    *)
(*     added (a token whose session lifetime has run out is rejected with  *)
(*     TokenExpiredError, there being no auto-refresh URL); the call is    *)
(*     then sent once and its response returned;                           *)
(*   - fetch_token(): clears the token, posts the grant of the session's   *)
(*     client (LegacyApplicationClient: grant_type=password) to the token  *)
(*     URL through self.request(), including every extra keyword argument *)
(*     in the request body, and stores the parsed token;                   *)
(*   - refresh_token(): posts grant_type=refresh_token with the held       *)
(*     refresh token and the extra keyword arguments through self.post()   *)
(*     with withhold_token=True, and stores the parsed token.              *)
(* Time is a logical clock; the server's created_at of a token is never    *)
(* later than the client's clock when the token is received.               *)
(***************************************************************************)
EXTENDS Integers, Sequences, FiniteSets, TLC

\* Deepest nesting of request() before Python gives up with RecursionError.
RecursionLimit == 3
\* Latest value of the logical clock.
MaxTime == 2
\* Longest token lifetime (expires_in) the token endpoint hands out.
MaxTtl == 2
VARIABLES
    configuration,   \* client.py: self.__configuration
    token,           \* OAuth2Session.token
    my_application,  \* client.py: self.__my_application
    now,             \* time.time()
    last,            \* the most recent operation: its inputs, the calls it made, its outcome
    gma_called,      \* get_my_application has been called without a configured pair
    payload,         \* a response body handed to the read path
    parsed           \* what the read path made of payload

vars == <<configuration, token, my_application, now, last, gma_called, payload, parsed>>

-----------------------------------------------------------------------------
(* URLs are sequences of string pieces; str.startswith is the prefix test. *)

StartsWith(url, prefix) ==
    /\ Len(prefix) <= Len(url)
    /\ SubSeq(url, 1, Len(prefix)) = prefix

Endpoint == <<"https://host.local">>
\* The token and API URLs as the configuration derives them from the endpoint
\* (test_config.py test_auto_oauth_token_url, test_auto_api_url).
TokenUrl == Endpoint \o <<"/oauth/token/">>
ApiUrl == Endpoint \o <<"/v1/">>
ForeignUrl == <<"https://www.google.com">>

\* client.py ENDPOINT and construct_url: api_url followed by the template.
construct_url(cfg, endpoint) == cfg.api_url \o <<endpoint>>

ASSETS == "/assets"
CLIENT_APPLICATION_CURRENT == "/client_applications/current"

None == "None"
NoHeader == "absent"

\* An empty token dict ({}), which is falsy.
NoToken == [kind |-> "empty"]

\* Python truthiness of a configuration value: None and "" are falsy.
Truthy(v) == v \notin {None, ""}

\* The application id and name a configuration may carry.
ApplicationSettings ==
    {<<None, "app2">>, <<"2", None>>, <<"2", "app2">>}

\* The configurations a client is constructed with.
Configurations ==
    {[endpoint |-> Endpoint, api_url |-> ApiUrl, oauth_token_url |-> TokenUrl,
      client_id |-> "id", client_secret |-> "secret", username |-> "user",
      password |-> "pass", client_application_id |-> a[1],
      client_application_name |-> a[2]] : a \in ApplicationSettings}

-----------------------------------------------------------------------------
(* What the network answers. *)

ConnectionError == [kind |-> "connection_error"]

\* Bodies the token endpoint may answer with at time t.
TokenResponses(t) ==
    [kind : {"token"}, status : {200},
     access_token : {"acctok"}, refresh_token : {"reftok"},
     created_at : 0..t, expires_in : 1..MaxTtl]
    \cup {[kind |-> "error", status |-> 401], ConnectionError}

Statuses == {200, 401}

\* What a caller may ask of request(): the method and the names of the
\* keyword arguments (query parameters, a JSON body).
RequestShapes ==
    {[method |-> "GET", names |-> {}],
     [method |-> "GET", names |-> {"params"}],
     [method |-> "POST", names |-> {"json"}]}

\* The bodies a call other than a token call may be answered with are opaque here.
Responses ==
    [kind : {"response"}, status : Statuses, body : {"body"}] \cup {ConnectionError}

NoResponse == [kind |-> "none"]

\* The keyword arguments of a request(): a function from their names to values.
KwargsOf(names) == [k \in names |-> "value"]

-----------------------------------------------------------------------------
(* netilion/error.py and the read path of netilion/model.py. A JSON object *)
(* is a function from its keys to its values, a JSON array a sequence.     *)

NoError == "none"

\* error.py GenericNetilionApiError.__init__(self, response=None), inherited
\* by every error class: the keyword arguments it is constructed with must
\* be among its parameters, else Python raises TypeError.
ErrorInit(cls, keywords) ==
    IF keywords \subseteq {"response"} THEN cls ELSE "TypeError"

\* model.py NetilionObject.raise_errors: the error it raises, if any.
raise_errors(body) ==
    IF "errors" \notin DOMAIN body
    THEN NoError
    ELSE IF ~ \A i \in DOMAIN body.errors : "type" \in DOMAIN body.errors[i]
    THEN ErrorInit("MalformedNetilionApiResponse", {"msg"})
    ELSE LET error_types == {body.errors[i].type : i \in DOMAIN body.errors}
         IN  IF "not_found_no_permission" \in error_types
             THEN ErrorInit("BadNetilionApiPermission", {})
             ELSE IF "quota_exceeded" \in error_types
             THEN ErrorInit("QuotaExceeded", {"msg"})
             ELSE ErrorInit("GenericNetilionApiError", {"msg"})

NoValue == [kind |-> "None"]

Raised(error) == [raised |-> error, value |-> NoValue]
Returned(value) == [raised |-> NoError, value |-> value]

\* (a constructor that takes its arguments in the other order)
ClientApplicationMutSwapped(name, api_id) ==
    [kind |-> "ClientApplication", name |-> api_id, api_id |-> name]

\* model.py ClientApplication.__init__(self, name, api_id)
ClientApplication(name, api_id) ==
    [kind |-> "ClientApplication", name |-> name, api_id |-> api_id]

\* model.py ClientApplication.deserialize: cls(body["name"], body["id"]).
ClientApplication_deserialize(body) ==
    IF {"name", "id"} \subseteq DOMAIN body
    THEN Returned(ClientApplication(body.name, body.id))
    ELSE Raised("KeyError")

\* model.py NetilionObject.parse_from_api for ClientApplication.
parse_from_api(body) ==
    IF raise_errors(body) # NoError
    THEN Raised(raise_errors(body))
    ELSE IF ClientApplication_deserialize(body).raised = "KeyError"
    THEN Raised(ErrorInit("MalformedNetilionApiResponse", {}))
    ELSE ClientApplication_deserialize(body)

\* The first error among the results of parsing the items, if any.
RECURSIVE FirstRaised(_)
FirstRaised(results) ==
    IF results = <<>> THEN NoError
    ELSE IF Head(results).raised # NoError THEN Head(results).raised
    ELSE FirstRaised(Tail(results))

\* model.py NetilionObject.parse_multiple_from_api for ClientApplication.
parse_multiple_from_api(body, under_key) ==
    IF raise_errors(body) # NoError
    THEN Raised(raise_errors(body))
    ELSE IF under_key \notin DOMAIN body
    THEN Raised("KeyError")
    ELSE LET results == [i \in DOMAIN body[under_key] |-> parse_from_api(body[under_key][i])]
         IN  IF FirstRaised(results) # NoError
             THEN Raised(FirstRaised(results))
             ELSE Returned([i \in DOMAIN results |-> results[i].value])

-----------------------------------------------------------------------------
(* The inherited session (requests_oauthlib.OAuth2Session). *)

\* One outbound HTTP call as the transport sees it, with the answer it got.
Call(method, url, kwargs, api_key, authorization, answer) ==
    [method |-> method, url |-> url, kwargs |-> kwargs, api_key |-> api_key,
     authorization |-> authorization, answer |-> answer]

\* (a hook that returns the headers as it got them)
set_api_headerMutNoKey(cfg, headers) == headers

\* client.py set_api_header, the hook registered for "protected_request".
set_api_header(cfg, headers) == [headers EXCEPT !.api_key = cfg.client_id]

\* (a session that sends a request again when it is answered with 401)
SessionRequestMutResend(cfg, tok, t, method, url, kwargs, withhold, answer) ==
    LET protected == tok # NoToken /\ ~withhold
        plain == [api_key |-> NoHeader, authorization |-> NoHeader]
        hooked == IF protected THEN set_api_header(cfg, plain) ELSE plain
        headers == IF protected
                   THEN [hooked EXCEPT !.authorization = tok.access_token]
                   ELSE hooked
        call == Call(method, url, kwargs, headers.api_key, headers.authorization, answer)
    IN  IF protected /\ tok.expires_at < t
        THEN [raised |-> "TokenExpiredError", calls |-> <<>>, response |-> NoResponse]
        ELSE IF answer = ConnectionError
        THEN [raised |-> "ConnectionError", calls |-> <<call>>, response |-> NoResponse]
        ELSE IF answer.status = 401
        THEN [raised |-> "none", calls |-> <<call, call>>, response |-> answer]
        ELSE [raised |-> "none", calls |-> <<call>>, response |-> answer]

\* super().request(): hooks and bearer token for a protected request, then
\* the call itself, sent once; its response is returned as it came.
SessionRequest(cfg, tok, t, method, url, kwargs, withhold, answer) ==
    LET protected == tok # NoToken /\ ~withhold
        plain == [api_key |-> NoHeader, authorization |-> NoHeader]
        hooked == IF protected THEN set_api_header(cfg, plain) ELSE plain
        headers == IF protected
                   THEN [hooked EXCEPT !.authorization = tok.access_token]
                   ELSE hooked
        call == Call(method, url, kwargs, headers.api_key, headers.authorization, answer)
    IN  IF protected /\ tok.expires_at < t
        THEN [raised |-> "TokenExpiredError", calls |-> <<>>, response |-> NoResponse]
        ELSE IF answer = ConnectionError
        THEN [raised |-> "ConnectionError", calls |-> <<call>>, response |-> NoResponse]
        ELSE [raised |-> "none", calls |-> <<call>>, response |-> answer]

\* The token the session stores from a token response received at time t.
ParsedToken(answer, t) ==
    [kind |-> "token", access_token |-> answer.access_token,
     refresh_token |-> answer.refresh_token, created_at |-> answer.created_at,
     expires_in |-> answer.expires_in, expires_at |-> t + answer.expires_in]

-----------------------------------------------------------------------------
(* NetilionTechnicalApiClient.request, fetch_token and refresh_token. The  *)
(* token methods call back into request() for the token URL.               *)

RECURSIVE request(_, _, _, _, _, _, _, _, _)

\* env: what the token endpoint and the requested URL answer;
\* the nested token request is answered by the token endpoint.
NestedEnv(env) == [token_response |-> env.token_response, response |-> env.token_response]

\* The end of the session's fetch_token(): the token request r has been made
\* with the token cleared; its parsed answer becomes the token.
StoreFetchedToken(r, t) ==
    IF r.raised # "none"
    THEN [r EXCEPT !.token = NoToken]
    ELSE IF r.response.kind # "token"
    THEN [r EXCEPT !.raised = "OAuth2Error", !.token = NoToken, !.response = NoResponse]
    ELSE [r EXCEPT !.token = ParsedToken(r.response, t), !.response = NoResponse]

\* (a refresh that drops the held token when it fails)
StoreRefreshedTokenMutDrop(r, tok, t) ==
    IF r.raised # "none"
    THEN [r EXCEPT !.token = NoToken]
    ELSE IF r.response.kind # "token"
    THEN [r EXCEPT !.raised = "OAuth2Error", !.token = NoToken, !.response = NoResponse]
    ELSE [r EXCEPT !.token = ParsedToken(r.response, t), !.response = NoResponse]

\* The end of the session's refresh_token(): on failure the token is kept.
StoreRefreshedToken(r, tok, t) ==
    IF r.raised # "none"
    THEN [r EXCEPT !.token = tok]
    ELSE IF r.response.kind # "token"
    THEN [r EXCEPT !.raised = "OAuth2Error", !.token = tok, !.response = NoResponse]
    ELSE [r EXCEPT !.token = ParsedToken(r.response, t), !.response = NoResponse]

\* The body of the password grant: the session's client id, the credentials
\* passed by name, and every other keyword argument.
PasswordGrantBody(cfg, kwargs) ==
    [grant_type |-> "password", client_id |-> cfg.client_id,
     client_secret |-> cfg.client_secret, username |-> cfg.username,
     password |-> cfg.password] @@ kwargs

\* client.py fetch_token -> super().fetch_token(token_url, username, password,
\* client_secret, include_client_id=True, **kwargs)
fetch_token(cfg, tok, t, kwargs, env, depth) ==
    StoreFetchedToken(
        request(cfg, NoToken, t, "POST", cfg.oauth_token_url,
                [data |-> PasswordGrantBody(cfg, kwargs)], FALSE, NestedEnv(env),
                depth + 1),
        t)

\* (a refresh that names the password grant)
RefreshGrantBodyMutPassword(tok, kwargs) ==
    [grant_type |-> "password", refresh_token |-> tok.refresh_token] @@ kwargs

\* The body of the refresh grant: the held refresh token and every keyword
\* argument, among them the client_id and client_secret client.py adds.
RefreshGrantBody(tok, kwargs) ==
    [grant_type |-> "refresh_token", refresh_token |-> tok.refresh_token] @@ kwargs

\* client.py refresh_token -> super().refresh_token(token_url, **kwargs)
refresh_token(cfg, tok, t, kwargs, env, depth) ==
    StoreRefreshedToken(
        request(cfg, tok, t, "POST", cfg.oauth_token_url,
                [data |-> RefreshGrantBody(tok,
                    [client_id |-> cfg.client_id, client_secret |-> cfg.client_secret]
                    @@ kwargs)],
                TRUE, NestedEnv(env), depth + 1),
        tok, t)

\* (an expiry test that lets the boundary instant pass)
token_expiredMutStrict(tok, t) == tok.created_at + tok.expires_in < t

\* client.py request, lines 74-75: token_expiry <= time.time()
token_expired(tok, t) == tok.created_at + tok.expires_in <= t

\* The original request, sent once the token handling is through (line 83).
OriginalRequest(cfg, got, t, method, url, kwargs, withhold, answer) ==
    IF got.raised # "none"
    THEN got
    ELSE LET r == SessionRequest(cfg, got.token, t, method, url, kwargs, withhold, answer)
         IN  [raised |-> r.raised, calls |-> got.calls \o r.calls,
              response |-> r.response, token |-> got.token, depth |-> got.depth]

\* (a host guard that lets every URL pass)
is_netilion_urlMutAny(cfg, url) == TRUE

\* client.py request, line 65: the host guard.
is_netilion_url(cfg, url) == StartsWith(url, cfg.endpoint)

\* (a client that never recognises the token URL)
is_token_urlMutNever(cfg, url) == FALSE

\* client.py request, line 67: is this the token request itself?
is_token_url(cfg, url) == url = cfg.oauth_token_url

\* client.py request
request(cfg, tok, t, method, url, kwargs, withhold, env, depth) ==
    IF depth > RecursionLimit
    THEN [raised |-> "RecursionError", calls |-> <<>>, response |-> NoResponse,
          token |-> tok, depth |-> depth]
    ELSE IF ~is_netilion_url(cfg, url)
    THEN [raised |-> "RuntimeError", calls |-> <<>>, response |-> NoResponse,
          token |-> tok, depth |-> depth]
    ELSE IF is_token_url(cfg, url)
    THEN LET r == SessionRequest(cfg, tok, t, method, url, kwargs, withhold, env.response)
         IN  [raised |-> r.raised, calls |-> r.calls, response |-> r.response,
              token |-> tok, depth |-> depth]
    ELSE OriginalRequest(cfg,
            IF tok = NoToken
            THEN fetch_token(cfg, tok, t, kwargs, env, depth)
            ELSE IF token_expired(tok, t)
            THEN refresh_token(cfg, tok, t, kwargs, env, depth)
            ELSE [raised |-> "none", calls |-> <<>>, response |-> NoResponse,
                  token |-> tok, depth |-> depth],
            t, method, url, kwargs, withhold, env.response)

-----------------------------------------------------------------------------
(* The state machine of one client instance. *)

NoOp == [op |-> "none"]

\* A fixed configuration for the specification of the read path.
TestConfiguration ==
    [endpoint |-> Endpoint, api_url |-> ApiUrl, oauth_token_url |-> TokenUrl,
     client_id |-> "id", client_secret |-> "secret", username |-> "user",
     password |-> "pass", client_application_id |-> "2",
     client_application_name |-> "app2"]

Init ==
    /\ configuration \in Configurations
    /\ token = NoToken
    /\ my_application = NoValue
    /\ now = 0
    /\ last = NoOp
    /\ gma_called = FALSE
    /\ payload = NoValue
    /\ parsed = NoValue

\* The clock advances between operations.
Tick ==
    /\ now < MaxTime
    /\ now' = now + 1
    /\ UNCHANGED <<configuration, token, my_application, last, gma_called, payload, parsed>>

\* The caller assigns the application fields of the configuration
\* (test_client.py: configuration.client_application_id = None).
SetClientApplication ==
    \E a \in ApplicationSettings :
        /\ a # <<configuration.client_application_id,
                 configuration.client_application_name>>
        /\ configuration' = [configuration EXCEPT !.client_application_id = a[1],
                                                  !.client_application_name = a[2]]
        /\ UNCHANGED <<token, my_application, now, last, gma_called, payload, parsed>>

RequestUrls == {construct_url(configuration, ASSETS), TokenUrl, ForeignUrl}

\* A caller invokes request(method, url, **kwargs).
Request ==
    \E shape \in RequestShapes, url \in RequestUrls,
       tr \in TokenResponses(now), rr \in Responses :
        \E r \in {request(configuration, token, now, shape.method, url,
                          KwargsOf(shape.names), FALSE,
                          [token_response |-> tr, response |-> rr], 1)} :
            /\ token' = r.token
            /\ last' = [op |-> "request", method |-> shape.method, url |-> url,
                        kwargs |-> KwargsOf(shape.names),
                        calls |-> r.calls, raised |-> r.raised,
                        response |-> r.response, depth |-> r.depth]
            /\ UNCHANGED <<configuration, my_application, now, gma_called, payload, parsed>>

\* client.py get -> requests.Session.get, which defaults allow_redirects
\* and calls self.request("GET", url, **kwargs).
get(cfg, tok, t, url, kwargs, env) ==
    request(cfg, tok, t, "GET", url, [allow_redirects |-> "True"] @@ kwargs, FALSE, env, 1)

\* What the current-application endpoint may answer.
ApplicationBodies ==
    {[name |-> "app1", id |-> "1"],
     [name |-> "app1"],
     [errors |-> <<[type |-> "not_found_no_permission"]>>]}

ApplicationResponses ==
    [kind : {"response"}, status : Statuses, body : ApplicationBodies] \cup {ConnectionError}

\* client.py get_my_application, lines 122-126: the fetch of the current
\* application, its parse and the memo.
FetchMyApplication(r) ==
    /\ token' = r.token
    /\ IF r.raised # "none"
       THEN /\ my_application' = my_application
            /\ last' = [op |-> "get_my_application", calls |-> r.calls,
                        raised |-> r.raised, value |-> NoValue]
       ELSE \E app \in {parse_from_api(r.response.body)} :
            /\ my_application' = IF app.raised = NoError THEN app.value ELSE my_application
            /\ last' = [op |-> "get_my_application", calls |-> r.calls,
                        raised |-> app.raised, value |-> app.value]

\* (a client that never finds its memo set)
is_memoizedMutNever(app) == FALSE

\* client.py get_my_application, line 117: if self.__my_application
is_memoized(app) == app # NoValue

\* client.py get_my_application
get_my_application ==
    IF is_memoized(my_application)
    THEN /\ last' = [op |-> "get_my_application", calls |-> <<>>, raised |-> NoError,
                     value |-> my_application]
         /\ UNCHANGED <<token, my_application, gma_called>>
    ELSE IF /\ Truthy(configuration.client_application_id)
            /\ Truthy(configuration.client_application_name)
    THEN /\ last' = [op |-> "get_my_application", calls |-> <<>>, raised |-> NoError,
                     value |-> ClientApplication(configuration.client_application_name,
                                                 configuration.client_application_id)]
         /\ UNCHANGED <<token, my_application, gma_called>>
    ELSE /\ gma_called' = TRUE
         /\ \E tr \in TokenResponses(now), rr \in ApplicationResponses :
                FetchMyApplication(
                    get(configuration, token, now,
                        construct_url(configuration, CLIENT_APPLICATION_CURRENT),
                        <<>>, [token_response |-> tr, response |-> rr]))

\* A caller invokes get_my_application().
GetMyApplication ==
    /\ get_my_application
    /\ UNCHANGED <<configuration, now, payload, parsed>>

\* The request layer: callers issue requests as time passes.
Next ==
    \/ Tick
    \/ Request

Spec == Init /\ [][Next]_vars

\* The resolution of "my application": callers ask for it as time passes
\* and reassign the application fields of the configuration.
AppNext ==
    \/ Tick
    \/ SetClientApplication
    \/ GetMyApplication

AppSpec == Init /\ [][AppNext]_vars

-----------------------------------------------------------------------------
(* The read path on its own: a response body is parsed as one object or as *)
(* a collection.                                                           *)

ErrorEntries ==
    {[message |-> "m"],
     [type |-> "not_found_no_permission"],
     [type |-> "quota_exceeded"],
     [type |-> "unknown_x"]}

\* Longest "errors" array.
MaxErrors == 2

ErrorArrays == UNION {[1..n -> ErrorEntries] : n \in 0..MaxErrors}

\* The entity part of a body: a client application, whole or not, alone or
\* in a collection.
EntityParts ==
    {<<>>, [name |-> "app1"], [name |-> "app1", id |-> "1"],
     [client_applications |-> <<>>],
     [client_applications |-> <<[name |-> "app1", id |-> "1"]>>],
     [client_applications |-> <<[name |-> "app1", id |-> "1"], [name |-> "app2"]>>]}

Payloads ==
    EntityParts \cup {[errors |-> es] @@ e : es \in ErrorArrays, e \in EntityParts}

ModelInit ==
    /\ configuration = TestConfiguration
    /\ token = NoToken
    /\ my_application = NoValue
    /\ now = 0
    /\ last = NoOp
    /\ gma_called = FALSE
    /\ payload \in Payloads
    /\ parsed = NoValue

\* ClientApplication.parse_from_api(payload)
ParseFromApi ==
    /\ parsed' = [op |-> "parse_from_api", result |-> parse_from_api(payload)]
    /\ UNCHANGED <<configuration, token, my_application, now, last, gma_called, payload>>

\* ClientApplication.parse_multiple_from_api(payload, "client_applications")
ParseMultipleFromApi ==
    /\ parsed' = [op |-> "parse_multiple_from_api",
                  result |-> parse_multiple_from_api(payload, "client_applications")]
    /\ UNCHANGED <<configuration, token, my_application, now, last, gma_called, payload>>

ModelNext ==
    \/ ParseFromApi
    \/ ParseMultipleFromApi

ModelSpec == ModelInit /\ [][ModelNext]_vars

-----------------------------------------------------------------------------
(* Properties of the request layer (Spec).                                 *)

\* A step in which request() ran: the clock and the configuration are as
\* before and the record of the most recent operation is a request's.
RequestStep ==
    /\ last'.op = "request"
    /\ now' = now
    /\ configuration' = configuration

\* A call that carries a grant, as the session's token methods send it.
IsGrantCall(call) == "data" \in DOMAIN call.kwargs

\* A call to the configured token endpoint.
IsTokenCall(call) == call.url = configuration.oauth_token_url

\* The URL begins with the configured endpoint.
UnderEndpoint(url) ==
    /\ Len(url) >= Len(configuration.endpoint)
    /\ SubSeq(url, 1, Len(configuration.endpoint)) = configuration.endpoint

\* The request was to the configured host and not to the token URL.
ToApi(url) ==
    /\ UnderEndpoint(url)
    /\ url # configuration.oauth_token_url

\* C1: a request to a URL that does not start with the configured endpoint
\* raises the host-mismatch error (RuntimeError) with no call made at all,
\* and leaves the held token and the my-application memo as they were,
\* whatever the token state.
C1_HostGuard ==
    [][(RequestStep /\ ~UnderEndpoint(last'.url))
        => /\ last'.raised = "RuntimeError"
           /\ last'.calls = <<>>
           /\ token' = token
           /\ my_application' = my_application]_vars

\* C1's case: a foreign URL was refused while a token was held.
C1_Witness ==
    /\ last.op = "request"
    /\ last.url = ForeignUrl
    /\ last.raised = "RuntimeError"
    /\ token # NoToken

C3_NeverRefreshGrant ==
    last.op = "request"
        => \A i \in DOMAIN last.calls :
               IsGrantCall(last.calls[i])
                   => last.calls[i].kwargs.data.grant_type = "password"

\* C3 amended: when the held token has expired, the token request is the
\* refresh-token grant: it carries the held refresh token with the client id
\* and secret, and neither username nor password; the password grant, with
\* username and password, is what is sent when no token is held.
C3_RefreshUsesRefreshGrant ==
    [][(RequestStep /\ ToApi(last'.url))
        => LET data == last'.calls[1].kwargs.data
           IN  /\ (token # NoToken /\ now >= token.created_at + token.expires_in)
                   => /\ data.grant_type = "refresh_token"
                      /\ data.refresh_token = token.refresh_token
                      /\ data.client_id = configuration.client_id
                      /\ data.client_secret = configuration.client_secret
                      /\ DOMAIN data \cap {"username", "password"} = {}
               /\ token = NoToken
                   => /\ data.grant_type = "password"
                      /\ data.username = configuration.username
                      /\ data.password = configuration.password]_vars

\* C3's case: an expired token was refreshed and the refresh succeeded.
C3_Witness ==
    /\ last.op = "request"
    /\ Len(last.calls) = 2
    /\ last.calls[1].kwargs.data.grant_type = "refresh_token"
    /\ last.calls[1].answer.kind = "token"

\* C4 as stated: a request to the token URL is performed directly (the one
\* call asked for is made), also when the held token has expired.
C4_TokenUrlAlwaysSent ==
    (last.op = "request" /\ last.url = configuration.oauth_token_url)
        => /\ Len(last.calls) = 1
           /\ last.calls[1].url = last.url
           /\ last.calls[1].kwargs = last.kwargs

\* C4 amended: a request to the token URL never fetches or refreshes a token
\* and never changes the held one; it is sent directly, as the only call,
\* unless a token is held whose session lifetime has run out, in which case
\* the session raises TokenExpiredError and no call is made.
C4_TokenUrlBypass ==
    [][(RequestStep /\ last'.url = configuration.oauth_token_url)
        => /\ token' = token
           /\ \A i \in DOMAIN last'.calls : ~IsGrantCall(last'.calls[i])
           /\ IF token # NoToken /\ token.expires_at < now
              THEN /\ last'.calls = <<>>
                   /\ last'.raised = "TokenExpiredError"
              ELSE /\ Len(last'.calls) = 1
                   /\ last'.calls[1].url = last'.url
                   /\ last'.calls[1].method = last'.method
                   /\ last'.calls[1].kwargs = last'.kwargs]_vars

\* C4's case: the token URL was requested directly while the held token had
\* expired by the client's reckoning, and the call was made.
C4_Witness ==
    /\ last.op = "request"
    /\ last.url = configuration.oauth_token_url
    /\ token # NoToken
    /\ token.created_at + token.expires_in <= now
    /\ Len(last.calls) = 1

PastTokenHandling ==
    /\ last.raised \notin {"RuntimeError", "RecursionError", "TokenExpiredError",
                           "OAuth2Error"}
    /\ \A i \in DOMAIN last.calls :
           IsGrantCall(last.calls[i]) => last.calls[i].answer.kind = "token"

\* C6: a request that gets past the host guard and the token handling sends
\* the real request exactly once, as its last call, and returns the
\* transport's response as it came (or raises the transport's error); a 401
\* or other status causes no token call and no resend.
C6_SentOnceResponseUnchanged ==
    (last.op = "request" /\ PastTokenHandling)
        => LET n == Len(last.calls)
               real == {i \in DOMAIN last.calls :
                           /\ last.calls[i].url = last.url
                           /\ last.calls[i].method = last.method
                           /\ last.calls[i].kwargs = last.kwargs}
           IN  /\ n >= 1
               /\ real = {n}
               /\ IF last.calls[n].answer = ConnectionError
                  THEN last.raised = "ConnectionError"
                  ELSE /\ last.raised = "none"
                       /\ last.response = last.calls[n].answer

\* C6's case: the real call was answered 401 after a token fetch, and the
\* 401 was handed back.
C6_Witness ==
    /\ last.op = "request"
    /\ Len(last.calls) = 2
    /\ last.raised = "none"
    /\ last.response.status = 401

\* C7 as stated: the password-grant token request carries exactly client_id,
\* client_secret, username, password and grant_type=password, whatever the
\* request that triggered it.
C7_PasswordGrantExactFields ==
    last.op = "request"
        => \A i \in DOMAIN last.calls :
               (IsGrantCall(last.calls[i])
                    /\ last.calls[i].kwargs.data.grant_type = "password")
                   => last.calls[i].kwargs.data =
                          [grant_type |-> "password",
                           client_id |-> configuration.client_id,
                           client_secret |-> configuration.client_secret,
                           username |-> configuration.username,
                           password |-> configuration.password]

-----------------------------------------------------------------------------
(* Properties of get_my_application (AppSpec).                             *)

\* A step in which get_my_application() ran.
GmaStep ==
    /\ last'.op = "get_my_application"
    /\ now' = now
    /\ configuration' = configuration

\* The configuration supplies an application id and an application name.
SuppliesApplication ==
    /\ configuration.client_application_id \notin {None, ""}
    /\ configuration.client_application_name \notin {None, ""}

ConfiguredApplication ==
    [kind |-> "ClientApplication", name |-> configuration.client_application_name,
     api_id |-> configuration.client_application_id]

\* The calls to the current-application endpoint among calls.
CurrentApplicationCalls(calls) ==
    {i \in DOMAIN calls :
        calls[i].url = configuration.api_url \o <<"/client_applications/current">>}

\* C8 as stated: when the configuration supplies both an application id and
\* a name, get_my_application returns exactly that name and id and makes no
\* network call.
C8_ConfiguredPairReturned ==
    [][(GmaStep /\ SuppliesApplication)
        => /\ last'.calls = <<>>
           /\ last'.raised = "none"
           /\ last'.value = ConfiguredApplication]_vars

\* C8 amended: when the configuration supplies both an application id and a
\* name, get_my_application makes no network call; it returns a descriptor
\* with exactly that name and id unless a descriptor has been memoized
\* before, which is then returned instead.
C8_ConfiguredPairUnlessMemo ==
    [][(GmaStep /\ SuppliesApplication)
        => /\ last'.calls = <<>>
           /\ last'.raised = "none"
           /\ last'.value = IF my_application # NoValue
                            THEN my_application
                            ELSE ConfiguredApplication
           /\ my_application' = my_application
           /\ token' = token]_vars

\* C8's case: the configured pair was returned with nothing memoized.
C8_Witness ==
    /\ last.op = "get_my_application"
    /\ last.value = ConfiguredApplication
    /\ my_application = NoValue
    /\ last.calls = <<>>

\* C9 as stated: without a configured pair, the current-application
\* endpoint is called on the first get_my_application call only; every later
\* call makes no network call.
C9_OnlyFirstCallFetches ==
    [][(GmaStep /\ ~SuppliesApplication /\ gma_called) => last'.calls = <<>>]_vars

\* C9 amended: without a configured pair, a get_my_application call makes
\* at most one call to the current-application endpoint, and only while no
\* descriptor is memoized; the descriptor is memoized exactly when the call
\* returns one, so a call that fails is followed by another fetch; once a
\* descriptor is memoized every call returns it without any network call,
\* and the memo never changes again.
C9_FetchedUntilMemoized ==
    [][/\ my_application # NoValue => my_application' = my_application
       /\ (GmaStep /\ ~SuppliesApplication)
           => IF my_application # NoValue
              THEN /\ last'.calls = <<>>
                   /\ last'.raised = "none"
                   /\ last'.value = my_application
              ELSE /\ Cardinality(CurrentApplicationCalls(last'.calls)) <= 1
                   /\ last'.raised = "none" <=> my_application' # NoValue
                   /\ last'.raised = "none"
                       => /\ Cardinality(CurrentApplicationCalls(last'.calls)) = 1
                          /\ my_application' = last'.value]_vars

\* C9's case: a descriptor was fetched, memoized, and then returned again
\* without a call.
C9_Witness ==
    /\ last.op = "get_my_application"
    /\ gma_called
    /\ ~SuppliesApplication
    /\ my_application # NoValue
    /\ last.value = my_application
    /\ last.calls = <<>>

-----------------------------------------------------------------------------
(* Properties of the read path (ModelSpec).                                *)

\* The entries of the "errors" array of the payload.
ErrorsOf(body) == {body.errors[i] : i \in DOMAIN body.errors}

\* What C10 says a payload with an "errors" key raises.
C10_Expected(body) ==
    IF \E e \in ErrorsOf(body) : "type" \notin DOMAIN e
    THEN "MalformedNetilionApiResponse"
    ELSE IF \E e \in ErrorsOf(body) : e.type = "not_found_no_permission"
    THEN "BadNetilionApiPermission"
    ELSE IF \E e \in ErrorsOf(body) : e.type = "quota_exceeded"
    THEN "QuotaExceeded"
    ELSE "GenericNetilionApiError"

\* C10: a payload with an "errors" key raises, in this precedence,
\* MalformedNetilionApiResponse if an entry lacks "type", else
\* BadNetilionApiPermission if an entry's type is "not_found_no_permission",
\* else QuotaExceeded if one is "quota_exceeded", else
\* GenericNetilionApiError; in single-object and in collection parsing.
C10_ErrorPrecedence ==
    (parsed # NoValue /\ "errors" \in DOMAIN payload)
        => parsed.result.raised = C10_Expected(payload)

\* The keys a client application is read from.
RequiredKeys == {"name", "id"}

\* The payload lacks a key the operation that parsed it requires: the keys
\* of the object itself, or the collection key, or the keys of an item.
LacksRequiredKey ==
    IF parsed.op = "parse_from_api"
    THEN ~(RequiredKeys \subseteq DOMAIN payload)
    ELSE \/ "client_applications" \notin DOMAIN payload
         \/ \E i \in DOMAIN payload.client_applications :
                ~(RequiredKeys \subseteq DOMAIN payload.client_applications[i])

\* C11: for a payload without an "errors" key, a missing required key
\* raises MalformedNetilionApiResponse, in parse_from_api and in
\* parse_multiple_from_api (where the collection key is itself required);
\* a payload that lacks none is parsed without an error.
C11_MissingKeyIsMalformed ==
    (parsed # NoValue /\ "errors" \notin DOMAIN payload)
        => parsed.result.raised = IF LacksRequiredKey
                                  THEN "MalformedNetilionApiResponse"
                                  ELSE "none"

-----------------------------------------------------------------------------
(* The entities of netilion/model.py that the client's write and find      *)
(* operations read. An optional attribute is <<>> (None) or <<v>>.         *)

PyNone == <<>>

\* dict.get(key): the value under key, or None.
Get(body, key) == IF key \in DOMAIN body THEN <<body[key]>> ELSE PyNone

\* Python truthiness of an optional number and of an optional string.
TruthyNumber(v) == v # PyNone /\ v[1] # 0
TruthyString(v) == v # PyNone /\ v[1] # ""

\* model.py Asset.__init__(self, asset_id, serial_number=None)
Asset(asset_id, serial_number) ==
    [kind |-> "Asset", asset_id |-> asset_id, serial_number |-> serial_number]

\* model.py Asset.deserialize: cls(body["id"], body.get("serial_number", None))
Asset_deserialize(body) ==
    IF "id" \in DOMAIN body
    THEN Returned(Asset(body.id, Get(body, "serial_number")))
    ELSE Raised("KeyError")

\* model.py WebHook.__init__(self, url, event_types, api_id=None, secret=None)
WebHook(url, event_types, api_id, secret) ==
    [kind |-> "WebHook", url |-> url, event_types |-> event_types,
     api_id |-> api_id, secret |-> secret]

\* model.py WebHook.deserialize:
\* cls(body["url"], body["event_types"], body["id"], body.get("secret"))
WebHook_deserialize(body) ==
    IF {"url", "event_types", "id"} \subseteq DOMAIN body
    THEN Returned(WebHook(body.url, body.event_types, <<body.id>>, Get(body, "secret")))
    ELSE Raised("KeyError")

\* model.py Unit.__init__(self, unit_id=None, code=None, name=None)
Unit(unit_id, code, name) ==
    IF ~TruthyNumber(unit_id) /\ ~TruthyString(code)
    THEN Raised(ErrorInit("MalformedNetilionApiResponse", {"msg"}))
    ELSE Returned([kind |-> "Unit", unit_id |-> unit_id, code |-> code, name |-> name])

\* model.py Unit.deserialize:
\* cls(body.get("id", None), body.get("code", None), body.get("name", None))
Unit_deserialize(body) == Unit(Get(body, "id"), Get(body, "code"), Get(body, "name"))

\* model.py NodeSpecification.__init__(self, node_id, name="",
\* specifications=None, hidden=False): specifications or {}
NodeSpecification(node_id, name, specifications, hidden) ==
    [kind |-> "NodeSpecification", node_id |-> node_id, name |-> name,
     specifications |-> IF specifications \in {PyNone, << <<>> >>} THEN <<>> ELSE specifications[1],
     hidden |-> hidden]

\* model.py NodeSpecification.deserialize: cls(body["id"], body.get("name"),
\* body.get("specifications"), body.get("hidden"))
NodeSpecification_deserialize(body) ==
    IF "id" \in DOMAIN body
    THEN Returned(NodeSpecification(body.id, Get(body, "name"),
                                    Get(body, "specifications"), Get(body, "hidden")))
    ELSE Raised("KeyError")

(* Timestamps. A string is the sequence of its pieces: the date and time   *)
(* to the second as one piece, then single characters. A datetime is the   *)
(* date and time to the second with the microseconds; every datetime here  *)
(* is in UTC, so astimezone(timezone.utc) leaves it as it is.              *)

DigitChar == <<"0", "1", "2", "3", "4", "5", "6", "7", "8", "9">>

\* str(n) of a natural number: its decimal digits, without padding.
RECURSIVE Digits(_)
Digits(n) ==
    IF n < 10 THEN <<DigitChar[n + 1]>>
    ELSE Digits(n \div 10) \o <<DigitChar[(n % 10) + 1]>>

IsDigit(c) == \E i \in 1..10 : DigitChar[i] = c
DigitValue(c) == (CHOOSE i \in 1..10 : DigitChar[i] = c) - 1

\* The number a sequence of digits writes.
RECURSIVE Number(_)
Number(ds) ==
    IF ds = <<>> THEN 0
    ELSE 10 * Number(SubSeq(ds, 1, Len(ds) - 1)) + DigitValue(ds[Len(ds)])

RECURSIVE PowerOfTen(_)
PowerOfTen(k) == IF k = 0 THEN 1 ELSE 10 * PowerOfTen(k - 1)

\* What strftime("%Y-%m-%dT%H:%M:%S") writes and strptime reads back.
SecondsTexts == {"2020-12-24T23:59:59", "2021-11-04T08:19:35"}

datetime(seconds, microsecond) ==
    [kind |-> "datetime", seconds |-> seconds, microsecond |-> microsecond]

\* strptime's %f: one to six digits, padded with zeros on the right.
ParseFraction(ds) == Number(ds) * PowerOfTen(6 - Len(ds))

\* datetime.strptime(chars, "%Y-%m-%dT%H:%M:%S.%f%z"), or without ".%f":
\* the datetime, or ValueError where chars does not match the format.
strptime(chars, with_fraction) ==
    LET n == Len(chars)
        fraction == SubSeq(chars, 3, n - 1)
    IN  IF n < 2 \/ chars[1] \notin SecondsTexts \/ chars[n] # "Z"
        THEN Raised("ValueError")
        ELSE IF ~with_fraction
        THEN IF n = 2 THEN Returned(datetime(chars[1], 0)) ELSE Raised("ValueError")
        ELSE IF /\ n >= 4
                /\ chars[2] = "."
                /\ Len(fraction) <= 6
                /\ \A i \in DOMAIN fraction : IsDigit(fraction[i])
        THEN Returned(datetime(chars[1], ParseFraction(fraction)))
        ELSE Raised("ValueError")

\* A JSON value under "timestamp": a string, a number or null.
JsonString(chars) == [type |-> "str", chars |-> chars]
JsonNumber(n) == [type |-> "number", value |-> n]
JsonNull == [type |-> "null"]

\* Python truthiness of such a value.
TruthyJson(v) ==
    CASE v.type = "str" -> v.chars # <<>>
      [] v.type = "number" -> v.value # 0
      [] v.type = "null" -> FALSE

\* model.py lines 220-224 and 326-330: the format chosen by "." in
\* timestamp (a TypeError for a number and for None), then strptime.
ParseTimestamp(v) ==
    IF v.type # "str"
    THEN Raised("TypeError")
    ELSE strptime(v.chars, \E i \in DOMAIN v.chars : v.chars[i] = ".")

\* model.py AssetValue.deserialize_timestamp
AssetValue_deserialize_timestamp(v) ==
    IF ~TruthyJson(v)
    THEN Returned(PyNone)
    ELSE IF ParseTimestamp(v).raised = "ValueError"
    THEN Returned(PyNone)
    ELSE IF ParseTimestamp(v).raised # NoError
    THEN ParseTimestamp(v)
    ELSE Returned(<<ParseTimestamp(v).value>>)

\* model.py AssetValuesByKey.deserialize_timestamp
AssetValuesByKey_deserialize_timestamp(v) ==
    IF ParseTimestamp(v).raised # NoError
    THEN ParseTimestamp(v)
    ELSE Returned(<<ParseTimestamp(v).value>>)

\* model.py lines 232-237 and 334-339: the seconds as strftime writes them,
\* a dot, the milliseconds as str() writes them, and "Z".
serialize_timestamp(ts) ==
    JsonString(<<ts.seconds, ".">> \o Digits(ts.microsecond \div 1000) \o <<"Z">>)

(* The remaining entities, with serialize and __eq__ for all of them.      *)

\* model.py Asset.serialize
Asset_serialize(x) == [id |-> x.asset_id]

\* model.py Asset.__eq__
Asset_eq(x, y) == x.asset_id = y.asset_id

\* model.py WebHook.serialize
WebHook_serialize(x) == [url |-> x.url, event_types |-> x.event_types]

\* model.py WebHook.__eq__
WebHook_eq(x, y) == x.url = y.url /\ x.event_types = y.event_types

\* model.py Unit.serialize: the code where there is one, else the id.
Unit_serialize(x) ==
    IF TruthyString(x.code) THEN [code |-> x.code[1]] ELSE [id |-> x.unit_id[1]]

\* model.py Unit.__eq__
Unit_eq(x, y) == x.unit_id = y.unit_id /\ x.code = y.code

\* model.py AssetValue.__init__(self, key, unit, value, timestamp=None):
\* unit is a Unit, or a dict that Unit.deserialize reads.
AssetValue(key, unit, value, timestamp) ==
    IF "kind" \in DOMAIN unit
    THEN Returned([kind |-> "AssetValue", key |-> key, unit |-> unit,
                   value |-> value, timestamp |-> timestamp])
    ELSE IF Unit_deserialize(unit).raised # NoError
    THEN Unit_deserialize(unit)
    ELSE Returned([kind |-> "AssetValue", key |-> key,
                   unit |-> Unit_deserialize(unit).value,
                   value |-> value, timestamp |-> timestamp])

\* model.py AssetValue.deserialize
AssetValue_deserialize(body) ==
    LET ts == IF "timestamp" \in DOMAIN body
              THEN AssetValue_deserialize_timestamp(body.timestamp)
              ELSE Returned(PyNone)
    IN  IF ts.raised # NoError
        THEN ts
        ELSE IF ~({"key", "unit", "value"} \subseteq DOMAIN body)
        THEN Raised("KeyError")
        ELSE AssetValue(body.key, body.unit, body.value, ts.value)

\* model.py AssetValue.serialize
AssetValue_serialize(x) ==
    IF x.timestamp # PyNone
    THEN [key |-> x.key, unit |-> Unit_serialize(x.unit), value |-> x.value,
          timestamp |-> serialize_timestamp(x.timestamp[1])]
    ELSE [key |-> x.key, unit |-> Unit_serialize(x.unit), value |-> x.value]

\* model.py AssetValue.__eq__
AssetValue_eq(x, y) == x.key = y.key /\ Unit_eq(x.unit, y.unit) /\ x.value = y.value

\* model.py AssetValuesByKey.__init__(self, value, timestamp=None)
AssetValuesByKey(value, timestamp) ==
    [kind |-> "AssetValuesByKey", value |-> value, timestamp |-> timestamp]

\* model.py AssetValuesByKey.deserialize: body.get("timestamp") is None
\* where the key is absent.
AssetValuesByKey_deserialize(body) ==
    LET ts == AssetValuesByKey_deserialize_timestamp(
                  IF "timestamp" \in DOMAIN body THEN body.timestamp ELSE JsonNull)
    IN  IF ts.raised # NoError
        THEN ts
        ELSE IF "value" \notin DOMAIN body
        THEN Raised("KeyError")
        ELSE Returned(AssetValuesByKey(body.value, ts.value))

\* model.py AssetValuesByKey.serialize: self.timestamp.astimezone is an
\* AttributeError where the timestamp is None.
AssetValuesByKey_serialize(x) ==
    IF x.timestamp = PyNone
    THEN Raised("AttributeError")
    ELSE Returned([value |-> x.value,
                   timestamp |-> serialize_timestamp(x.timestamp[1])])

\* model.py AssetHealthCondition.__init__(self, health_condition_id, diagnosis_code)
AssetHealthCondition(health_condition_id, diagnosis_code) ==
    [kind |-> "AssetHealthCondition", health_condition_id |-> health_condition_id,
     diagnosis_code |-> diagnosis_code]

\* model.py AssetHealthCondition.deserialize
AssetHealthCondition_deserialize(body) ==
    IF {"id", "diagnosis_code"} \subseteq DOMAIN body
    THEN Returned(AssetHealthCondition(body.id, body.diagnosis_code))
    ELSE Raised("KeyError")

\* model.py AssetHealthCondition.serialize
AssetHealthCondition_serialize(x) ==
    [id |-> x.health_condition_id, diagnosis_code |-> x.diagnosis_code]

\* model.py AssetHealthCondition.__eq__
AssetHealthCondition_eq(x, y) ==
    /\ x.health_condition_id = y.health_condition_id
    /\ x.diagnosis_code = y.diagnosis_code

\* model.py NodeSpecification.serialize, for an instance whose name and
\* hidden are set.
NodeSpecification_serialize(x) ==
    IF x.specifications # <<>>
    THEN [id |-> x.node_id, name |-> x.name[1], hidden |-> x.hidden[1],
          specifications |-> x.specifications]
    ELSE [id |-> x.node_id, name |-> x.name[1], hidden |-> x.hidden[1]]

\* model.py NodeSpecification.__eq__
NodeSpecification_eq(x, y) == x.node_id = y.node_id

\* model.py Pagination.__init__(self, page_count, per_page, page, next_url=None)
Pagination(page_count, per_page, page, next_url) ==
    [kind |-> "Pagination", page_count |-> page_count, per_page |-> per_page,
     page |-> page, next_url |-> next_url]

\* model.py Pagination.deserialize: reads the dict under "pagination".
Pagination_deserialize(body) ==
    IF "pagination" \notin DOMAIN body
    THEN Raised("KeyError")
    ELSE IF ~({"page_count", "per_page", "page"} \subseteq DOMAIN body.pagination)
    THEN Raised("KeyError")
    ELSE Returned(Pagination(body.pagination.page_count, body.pagination.per_page,
                             body.pagination.page, Get(body.pagination, "next")))

\* model.py Pagination.serialize: the dict itself, not under "pagination".
Pagination_serialize(x) ==
    IF TruthyString(x.next_url)
    THEN [page_count |-> x.page_count, per_page |-> x.per_page, page |-> x.page,
          next |-> x.next_url[1]]
    ELSE [page_count |-> x.page_count, per_page |-> x.per_page, page |-> x.page]

\* x.serialize() for an instance of any of the eight classes.
serialize(x) ==
    CASE x.kind = "Asset" -> Returned(Asset_serialize(x))
      [] x.kind = "WebHook" -> Returned(WebHook_serialize(x))
      [] x.kind = "Unit" -> Returned(Unit_serialize(x))
      [] x.kind = "AssetValue" -> Returned(AssetValue_serialize(x))
      [] x.kind = "AssetValuesByKey" -> AssetValuesByKey_serialize(x)
      [] x.kind = "NodeSpecification" -> Returned(NodeSpecification_serialize(x))
      [] x.kind = "AssetHealthCondition" -> Returned(AssetHealthCondition_serialize(x))
      [] x.kind = "Pagination" -> Returned(Pagination_serialize(x))

\* x == y for two distinct objects. AssetValuesByKey and Pagination define
\* no __eq__, so object.__eq__ compares identity and two objects differ.
Equal(x, y) ==
    /\ x.kind = y.kind
    /\ CASE x.kind = "Asset" -> Asset_eq(x, y)
         [] x.kind = "WebHook" -> WebHook_eq(x, y)
         [] x.kind = "Unit" -> Unit_eq(x, y)
         [] x.kind = "AssetValue" -> AssetValue_eq(x, y)
         [] x.kind = "AssetValuesByKey" -> FALSE
         [] x.kind = "NodeSpecification" -> NodeSpecification_eq(x, y)
         [] x.kind = "AssetHealthCondition" -> AssetHealthCondition_eq(x, y)
         [] x.kind = "Pagination" -> FALSE

\* cls.deserialize(body) for the classes the client parses here.
deserialize(cls, body) ==
    CASE cls = "ClientApplication" -> ClientApplication_deserialize(body)
      [] cls = "Asset" -> Asset_deserialize(body)
      [] cls = "WebHook" -> WebHook_deserialize(body)
      [] cls = "Unit" -> Unit_deserialize(body)
      [] cls = "NodeSpecification" -> NodeSpecification_deserialize(body)

\* model.py NetilionObject.parse_from_api, for any of these classes.
cls_parse_from_api(cls, body) ==
    IF raise_errors(body) # NoError
    THEN Raised(raise_errors(body))
    ELSE IF deserialize(cls, body).raised = "KeyError"
    THEN Raised(ErrorInit("MalformedNetilionApiResponse", {}))
    ELSE deserialize(cls, body)

\* model.py NetilionObject.parse_multiple_from_api, for any of these classes.
cls_parse_multiple_from_api(cls, body, under_key) ==
    IF raise_errors(body) # NoError
    THEN Raised(raise_errors(body))
    ELSE IF under_key \notin DOMAIN body
    THEN Raised("KeyError")
    ELSE LET results == [i \in DOMAIN body[under_key] |->
                            cls_parse_from_api(cls, body[under_key][i])]
         IN  IF FirstRaised(results) # NoError
             THEN Raised(FirstRaised(results))
             ELSE Returned([i \in DOMAIN results |-> results[i].value])

-----------------------------------------------------------------------------
(* The write and find operations of netilion/client.py: what each makes of *)
(* the response to its request.                                            *)

\* A response body that is not JSON (an empty body).
NotJson == [kind |-> "not_json"]

\* response.json()
ResponseJson(response) ==
    IF response.body = NotJson THEN Raised("JSONDecodeError") ELSE Returned(response.body)

\* client.py create_asset, line 143
create_asset_outcome(response) ==
    IF ResponseJson(response).raised # NoError
    THEN ResponseJson(response)
    ELSE cls_parse_from_api("Asset", response.body)

\* (a delete that takes every status below 300 for success)
delete_asset_outcomeMutAny2xx(response) ==
    IF 400 <= response.status /\ response.status < 500
    THEN Raised(ErrorInit("MalformedNetilionApiRequest", {}))
    ELSE IF response.status >= 300
    THEN Raised(ErrorInit("InvalidNetilionApiState", {}))
    ELSE Returned(NoValue)

\* client.py delete_asset, lines 147-150
delete_asset_outcome(response) ==
    IF 400 <= response.status /\ response.status < 500
    THEN Raised(ErrorInit("MalformedNetilionApiRequest", {}))
    ELSE IF response.status # 204
    THEN Raised(ErrorInit("InvalidNetilionApiState", {}))
    ELSE Returned(NoValue)

\* client.py find_asset, lines 155-160, and find_unit, lines 175-180:
\* the list parsed from under_key, then the rule on its length.
find_outcome(cls, under_key, response) ==
    IF ResponseJson(response).raised # NoError
    THEN ResponseJson(response)
    ELSE LET found == cls_parse_multiple_from_api(cls, response.body, under_key)
         IN  IF found.raised # NoError
             THEN found
             ELSE IF Len(found.value) = 0
             THEN Returned(NoValue)
             ELSE IF Len(found.value) > 1
             THEN Raised(ErrorInit("InvalidNetilionApiState", {"msg"}))
             ELSE Returned(found.value[1])

\* (a check that lets the status 300 pass)
push_asset_values_outcomeMutAbove300(response) ==
    IF response.status > 300
    THEN Raised(ErrorInit("MalformedNetilionApiResponse", {}))
    ELSE Returned(NoValue)

\* client.py push_asset_values, lines 196-200
push_asset_values_outcome(response) ==
    IF response.status >= 300
    THEN Raised(ErrorInit("MalformedNetilionApiResponse", {}))
    ELSE Returned(NoValue)

\* client.py set_webhook, lines 226-228
set_webhook_outcome(response) ==
    IF response.status >= 300
    THEN Raised(ErrorInit("MalformedNetilionApiRequest", {}))
    ELSE IF ResponseJson(response).raised # NoError
    THEN ResponseJson(response)
    ELSE cls_parse_from_api("WebHook", response.body)

\* client.py delete_webhook, lines 234-238
delete_webhook_outcome(response) ==
    IF response.status >= 300
    THEN Raised(ErrorInit("MalformedNetilionApiResponse", {}))
    ELSE Returned(NoValue)

\* client.py post_node, lines 260-265
post_node_outcome(response) ==
    IF response.status >= 300
    THEN Raised(ErrorInit("MalformedNetilionApiResponse", {}))
    ELSE IF ResponseJson(response).raised # NoError
    THEN ResponseJson(response)
    ELSE cls_parse_from_api("NodeSpecification", response.body)

\* client.py patch_node_specification, lines 273-277
patch_node_specification_outcome(response) ==
    IF response.status >= 300
    THEN Raised(ErrorInit("MalformedNetilionApiResponse", {}))
    ELSE Returned(NoValue)

-----------------------------------------------------------------------------
(* The state machine of the write and find operations. The configuration   *)
(* supplies the application id and name, as the tests' fixture does.       *)

\* client.py construct_url with values: the template filled in.
construct_url_values(cfg, endpoint, values) == cfg.api_url \o <<endpoint>> \o values

ASSET == "/assets/{asset_id}"
UNITS == "/units"
ASSET_VALUES == "/assets/{asset_id}/values"
WEBHOOKS == "/client_applications/{application_id}/webhooks"
WEBHOOK == "/client_applications/{application_id}/webhooks/{webhook_id}"
NODES == "/nodes"
NODES_SPECIFICATIONS == "/nodes/{node_id}/specifications"

\* The statuses a write or find request is answered with.
WriteStatuses == {200, 204, 299, 300, 400, 499, 500}

AssetBody == [id |-> 1, serial_number |-> "0xdeadbeef"]
UnitBody == [id |-> 8409, code |-> "absorbance_unit", name |-> "absorbance unit"]

\* The bodies a write or find request is answered with: none, an entity
\* with every key any of the classes reads, one without an id, an error
\* envelope, and collections of no, one and two entities.
WriteBodies ==
    {NotJson,
     [id |-> 1, serial_number |-> "0xdeadbeef", url |-> "http://host2.local",
      event_types |-> <<"asset_values_created">>, name |-> "node_name"],
     [name |-> "node_name"],
     [errors |-> <<[type |-> "not_found_no_permission"]>>],
     [assets |-> <<>>, units |-> <<>>],
     [assets |-> <<AssetBody>>, units |-> <<UnitBody>>],
     [assets |-> <<AssetBody, AssetBody>>, units |-> <<UnitBody, UnitBody>>]}

WriteResponses ==
    [kind : {"response"}, status : WriteStatuses, body : WriteBodies] \cup {ConnectionError}

WriteInit ==
    /\ configuration \in {c \in Configurations :
                             /\ Truthy(c.client_application_id)
                             /\ Truthy(c.client_application_name)}
    /\ token = NoToken
    /\ my_application = NoValue
    /\ now = 0
    /\ last = NoOp
    /\ gma_called = FALSE
    /\ payload = NoValue
    /\ parsed = NoValue

find_asset_outcome(response) == find_outcome("Asset", "assets", response)

find_unit_outcome(response) == find_outcome("Unit", "units", response)

\* The operation op has made its request, with result sent, and has made
\* outcome of the response; a request that raised leaves no response.
Perform(op, sent, outcome) ==
    /\ token' = sent.token
    /\ last' = [op |-> op,
                response |-> IF sent.raised # "none" THEN NoResponse ELSE sent.response,
                raised |-> IF sent.raised # "none" THEN sent.raised ELSE outcome.raised,
                value |-> IF sent.raised # "none" THEN NoValue ELSE outcome.value]
    /\ UNCHANGED <<configuration, my_application, now, gma_called, payload, parsed>>

\* What the network answers to one operation.
Envs == {[token_response |-> tr, response |-> rr] :
            tr \in TokenResponses(now), rr \in WriteResponses}

\* requests.Session.post and patch -> self.request(method, url, data=None,
\* json=json); the absent data changes neither request.
send_json(cfg, tok, t, method, url, env) ==
    request(cfg, tok, t, method, url, [json |-> "value"], FALSE, env, 1)

\* requests.Session.delete -> self.request("DELETE", url)
delete(cfg, tok, t, url, env) ==
    request(cfg, tok, t, "DELETE", url, <<>>, FALSE, env, 1)

\* get_my_application().api_id where it is known without a request:
\* client.py get_my_application, lines 117-120.
my_application_id(cfg, app) ==
    IF is_memoized(app) THEN app.api_id ELSE cfg.client_application_id

CreateAsset ==
    \E env \in Envs :
        \E sent \in {send_json(configuration, token, now, "POST",
                      construct_url(configuration, ASSETS), env)} :
            \E outcome \in {IF sent.raised # "none" THEN Raised(sent.raised)
                            ELSE create_asset_outcome(sent.response)} :
                Perform("create_asset", sent, outcome)

DeleteAsset ==
    \E env \in Envs :
        \E sent \in {delete(configuration, token, now,
                   construct_url_values(configuration, ASSET, <<1>>), env)} :
            \E outcome \in {IF sent.raised # "none" THEN Raised(sent.raised)
                            ELSE delete_asset_outcome(sent.response)} :
                Perform("delete_asset", sent, outcome)

FindAsset ==
    \E env \in Envs :
        \E sent \in {get(configuration, token, now, construct_url(configuration, ASSETS),
                [params |-> "value"], env)} :
            \E outcome \in {IF sent.raised # "none" THEN Raised(sent.raised)
                            ELSE find_asset_outcome(sent.response)} :
                Perform("find_asset", sent, outcome)

FindUnit ==
    \E env \in Envs :
        \E sent \in {get(configuration, token, now, construct_url(configuration, UNITS),
                [params |-> "value"], env)} :
            \E outcome \in {IF sent.raised # "none" THEN Raised(sent.raised)
                            ELSE find_unit_outcome(sent.response)} :
                Perform("find_unit", sent, outcome)

PushAssetValues ==
    \E env \in Envs :
        \E sent \in {send_json(configuration, token, now, "POST",
                      construct_url_values(configuration, ASSET_VALUES, <<1>>), env)} :
            \E outcome \in {IF sent.raised # "none" THEN Raised(sent.raised)
                            ELSE push_asset_values_outcome(sent.response)} :
                Perform("push_asset_values", sent, outcome)

SetWebhook ==
    \E env \in Envs :
        \E sent \in {send_json(configuration, token, now, "POST",
                      construct_url_values(configuration, WEBHOOKS,
                          <<my_application_id(configuration, my_application)>>), env)} :
            \E outcome \in {IF sent.raised # "none" THEN Raised(sent.raised)
                            ELSE set_webhook_outcome(sent.response)} :
                Perform("set_webhook", sent, outcome)

DeleteWebhook ==
    \E env \in Envs :
        \E sent \in {delete(configuration, token, now,
                   construct_url_values(configuration, WEBHOOK,
                       <<my_application_id(configuration, my_application), 99>>), env)} :
            \E outcome \in {IF sent.raised # "none" THEN Raised(sent.raised)
                            ELSE delete_webhook_outcome(sent.response)} :
                Perform("delete_webhook", sent, outcome)

PostNode ==
    \E env \in Envs :
        \E sent \in {send_json(configuration, token, now, "POST",
                      construct_url(configuration, NODES), env)} :
            \E outcome \in {IF sent.raised # "none" THEN Raised(sent.raised)
                            ELSE post_node_outcome(sent.response)} :
                Perform("post_node", sent, outcome)

PatchNodeSpecification ==
    \E env \in Envs :
        \E sent \in {send_json(configuration, token, now, "PATCH",
                      construct_url_values(configuration, NODES_SPECIFICATIONS, <<99>>),
                      env)} :
            \E outcome \in {IF sent.raised # "none" THEN Raised(sent.raised)
                            ELSE patch_node_specification_outcome(sent.response)} :
                Perform("patch_node_specification", sent, outcome)

WriteNext ==
    \/ CreateAsset
    \/ DeleteAsset
    \/ FindAsset
    \/ FindUnit
    \/ PushAssetValues
    \/ SetWebhook
    \/ DeleteWebhook
    \/ PostNode
    \/ PatchNodeSpecification

WriteSpec == WriteInit /\ [][WriteNext]_vars

-----------------------------------------------------------------------------
(* Properties of the write and find operations (WriteSpec).                *)

\* The most recent operation was one of ops and its request was answered.
Answered(ops) == last.op \in ops /\ last.response \notin {NoResponse}

Is2xx(status) == 200 <= status /\ status <= 299
Is4xx(status) == 400 <= status /\ status <= 499

\* C12: delete_asset returns without raising only when the status is 204;
\* it raises MalformedNetilionApiRequest for every status in 400..499,
\* whatever the body, and InvalidNetilionApiState for every other status.
C12_DeleteAssetByStatus ==
    (last.op = "delete_asset")
        => /\ last.raised = "none" => Answered({"delete_asset"}) /\ last.response.status = 204
           /\ Answered({"delete_asset"})
               => last.raised = IF last.response.status = 204 THEN "none"
                                ELSE IF Is4xx(last.response.status)
                                THEN "MalformedNetilionApiRequest"
                                ELSE "InvalidNetilionApiState"

\* C12's case: a delete answered 499 with an error envelope was refused as
\* a malformed request.
C12_Witness ==
    /\ Answered({"delete_asset"})
    /\ last.response.status = 499
    /\ "errors" \in DOMAIN last.response.body
    /\ last.raised = "MalformedNetilionApiRequest"

WriteOperations ==
    {"create_asset", "delete_asset", "push_asset_values", "set_webhook",
     "delete_webhook", "post_node", "patch_node_specification"}

\* C13: every write operation classifies its outcome by the status: a 4xx
\* raises MalformedNetilionApiRequest, any other status outside 2xx raises
\* InvalidNetilionApiState, and a 2xx raises neither.
C13_WritesClassifyByStatus ==
    Answered(WriteOperations)
        => IF Is4xx(last.response.status)
           THEN last.raised = "MalformedNetilionApiRequest"
           ELSE IF ~Is2xx(last.response.status)
           THEN last.raised = "InvalidNetilionApiState"
           ELSE last.raised \notin {"MalformedNetilionApiRequest", "InvalidNetilionApiState"}

\* C14: post_node and patch_node_specification raise
\* MalformedNetilionApiRequest when the server answers with a 4xx status.
C14_NodeWrites4xxMalformedRequest ==
    (Answered({"post_node", "patch_node_specification"}) /\ Is4xx(last.response.status))
        => last.raised = "MalformedNetilionApiRequest"

\* C15: push_asset_values and delete_webhook raise
\* MalformedNetilionApiResponse whenever the status is 300 or above and
\* return without raising for every status below 300.
C15_Status300AndAboveIsMalformedResponse ==
    Answered({"push_asset_values", "delete_webhook"})
        => last.raised = IF last.response.status >= 300
                         THEN "MalformedNetilionApiResponse"
                         ELSE "none"

\* C15's case: the boundary status 300 was refused by delete_webhook.
C15_Witness ==
    /\ Answered({"delete_webhook"})
    /\ last.response.status = 300
    /\ last.raised = "MalformedNetilionApiResponse"

\* The list a find operation was answered with, where the answer is a
\* collection of whole entities.
FoundList ==
    IF last.op = "find_asset" THEN last.response.body.assets ELSE last.response.body.units

\* C16: find_asset and find_unit return None for no match, the entity for
\* exactly one match, and raise InvalidNetilionApiState for two or more.
C16_FindCardinality ==
    (/\ Answered({"find_asset", "find_unit"})
     /\ {"assets", "units"} \subseteq DOMAIN last.response.body)
        => IF Len(FoundList) = 0
           THEN last.raised = "none" /\ last.value = NoValue
           ELSE IF Len(FoundList) = 1
           THEN /\ last.raised = "none"
                /\ last.value.kind = IF last.op = "find_asset" THEN "Asset" ELSE "Unit"
           ELSE last.raised = "InvalidNetilionApiState"

-----------------------------------------------------------------------------
(* The entities on their own: construction, serialization and              *)
(* deserialization applied to inputs drawn from small sets. payload holds  *)
(* the input and parsed what the operation made of it.                     *)

\* The arguments Unit(...) is constructed with.
UnitArguments ==
    [kind : {"unit_args"}, unit_id : {PyNone, <<0>>, <<1>>, <<123>>},
     code : {PyNone, <<"">>, <<"parsec">>}, name : {PyNone, <<"Parsecs">>}]

\* The Unit objects that can be constructed from such arguments.
Units ==
    {Unit(a.unit_id, a.code, a.name).value :
        a \in {b \in UnitArguments : Unit(b.unit_id, b.code, b.name).raised = NoError}}

\* The milliseconds of a timestamp.
Millis == 0..999

Timestamps ==
    {PyNone} \cup {<<datetime(s, ms * 1000)>> : s \in SecondsTexts, ms \in {0, 5, 123}}

\* Instances of the eight classes that serialize and deserialize.
Instances ==
    {Asset(id, sn) : id \in {1, 2}, sn \in {PyNone, <<"SN1">>}}
    \cup {WebHook("http://host.local", <<"asset_values.created">>, id, secret) :
              id \in {PyNone, <<42>>}, secret \in {PyNone, <<"secret">>}}
    \cup Units
    \cup {AssetValue("temperature", u, v, ts).value :
              u \in Units, v \in {0, 21}, ts \in Timestamps}
    \cup {AssetValuesByKey(v, ts) : v \in {0, 21}, ts \in Timestamps}
    \cup {NodeSpecification(id, name, specs, hidden) :
              id \in {1, 2}, name \in {<<"">>, <<"node">>},
              specs \in {PyNone, <<[vendor |-> "acme"]>>}, hidden \in {<<FALSE>>, <<TRUE>>}}
    \cup {AssetHealthCondition(id, code) : id \in {1, 2}, code \in {"F001", "S002"}}
    \cup {Pagination(pc, 10, pg, next) :
              pc \in {1, 2}, pg \in {1, 2}, next \in {PyNone, <<"http://host.local/v1/assets?page=2">>}}

\* What an API body carries under "timestamp".
JsonTimestamps ==
    {JsonString(<<s, ".", "1", "2", "3", "Z">>) : s \in SecondsTexts}
    \cup {JsonString(<<s, "Z">>) : s \in SecondsTexts}
    \cup {JsonString(<<s>>) : s \in SecondsTexts}
    \cup {JsonString(<<s, ".", "1", "2", "3">>) : s \in SecondsTexts}
    \cup {JsonString(<<"yesterday">>), JsonString(<<>>), JsonNull,
          JsonNumber(0), JsonNumber(1631521985)}

\* The bodies AssetValue.deserialize is given: with and without a timestamp.
AssetValueBodies ==
    {[key |-> "temperature", unit |-> [code |-> "degree_celsius"], value |-> 21]}
    \cup {[key |-> "temperature", unit |-> [code |-> "degree_celsius"], value |-> 21,
           timestamp |-> t] : t \in JsonTimestamps}

\* model.py NetilionObject.parse_from_api for AssetValuesByKey.
AssetValuesByKey_parse_from_api(body) ==
    IF raise_errors(body) # NoError
    THEN Raised(raise_errors(body))
    ELSE IF AssetValuesByKey_deserialize(body).raised = "KeyError"
    THEN Raised(ErrorInit("MalformedNetilionApiResponse", {}))
    ELSE AssetValuesByKey_deserialize(body)

\* model.py NetilionObject.parse_multiple_from_api for AssetValuesByKey, as
\* client.py get_asset_values_history and get_last_asset_values call it.
AssetValuesByKey_parse_multiple_from_api(body, under_key) ==
    IF raise_errors(body) # NoError
    THEN Raised(raise_errors(body))
    ELSE IF under_key \notin DOMAIN body
    THEN Raised("KeyError")
    ELSE LET results == [i \in DOMAIN body[under_key] |->
                            AssetValuesByKey_parse_from_api(body[under_key][i])]
         IN  IF FirstRaised(results) # NoError
             THEN Raised(FirstRaised(results))
             ELSE Returned([i \in DOMAIN results |-> results[i].value])

\* The entries of a history response: complete, without a timestamp,
\* without a value, and with a null timestamp.
HistoryEntries ==
    {[value |-> 21, timestamp |-> JsonString(<<"2021-11-04T08:19:35", ".", "1", "2", "3", "Z">>)],
     [value |-> 22, timestamp |-> JsonString(<<"2021-11-04T08:19:35", "Z">>)],
     [value |-> 21],
     [timestamp |-> JsonString(<<"2021-11-04T08:19:35", "Z">>)],
     [value |-> 21, timestamp |-> JsonNull]}

\* The history responses: up to two entries under "data".
HistoryBodies ==
    {[data |-> <<>>]}
    \cup {[data |-> <<e>>] : e \in HistoryEntries}
    \cup {[data |-> <<e, f>>] : e \in HistoryEntries, f \in HistoryEntries}

\* The keys of asset values, in the ascending order of Python's sorted().
KeysAscending == <<"k1", "k2">>

Rank(key) == CHOOSE i \in DOMAIN KeysAscending : KeysAscending[i] = key

\* (a sort that puts the greatest key first)
RECURSIVE sortedMutDescending(_)
sortedMutDescending(keys) ==
    IF keys = {} THEN <<>>
    ELSE LET last_key == CHOOSE k \in keys : \A o \in keys : Rank(o) <= Rank(k)
         IN  <<last_key>> \o sortedMutDescending(keys \ {last_key})

\* sorted(keys): the keys in ascending order.
RECURSIVE sorted(_)
sorted(keys) ==
    IF keys = {} THEN <<>>
    ELSE LET first_key == CHOOSE k \in keys : \A o \in keys : Rank(k) <= Rank(o)
         IN  <<first_key>> \o sorted(keys \ {first_key})

\* model.py AssetValues.__init__(self, asset, values)
AssetValues(asset, values) ==
    [kind |-> "AssetValues", asset |-> asset, values |-> values]

\* model.py AssetValues.serialize, lines 284-297: the record of one key.
key_values(values, key) ==
    LET asset_values == SelectSeq(values, LAMBDA v : v.key = key)
    IN  [key |-> key,
         data |-> [i \in DOMAIN asset_values |->
                      IF asset_values[i].timestamp # PyNone
                      THEN [value |-> asset_values[i].value,
                            timestamp |-> AssetValue_serialize(asset_values[i]).timestamp]
                      ELSE [value |-> asset_values[i].value]],
         unit |-> Unit_serialize(asset_values[1].unit)]

\* model.py AssetValues.serialize
AssetValues_serialize(x) ==
    LET keys == {x.values[i].key : i \in DOMAIN x.values}
    IN  [asset |-> Asset_serialize(x.asset),
         values |-> [i \in DOMAIN sorted(keys) |-> key_values(x.values, sorted(keys)[i])]]

\* model.py AssetValues.deserialize, lines 270-274: one entry of a key's data.
value_data(value_key, value_unit, data) ==
    LET timestamp == IF "timestamp" \in DOMAIN data
                     THEN AssetValue_deserialize_timestamp(data.timestamp)
                     ELSE Returned(PyNone)
    IN  IF timestamp.raised # NoError
        THEN timestamp
        ELSE IF "value" \notin DOMAIN data
        THEN Raised("KeyError")
        ELSE AssetValue(value_key, value_unit, data.value, timestamp.value)

\* model.py AssetValues.deserialize, lines 265-274: the entries of one key.
value_datas(value) ==
    IF ~({"key", "data", "unit"} \subseteq DOMAIN value)
    THEN Raised("KeyError")
    ELSE LET results == [i \in DOMAIN value.data |->
                            value_data(value.key, value.unit, value.data[i])]
         IN  IF FirstRaised(results) # NoError
             THEN Raised(FirstRaised(results))
             ELSE Returned([i \in DOMAIN results |-> results[i].value])

\* The lists one after another: what asset_values.append builds.
RECURSIVE Flatten(_)
Flatten(lists) ==
    IF lists = <<>> THEN <<>> ELSE Head(lists) \o Flatten(Tail(lists))

\* model.py AssetValues.deserialize
AssetValues_deserialize(body) ==
    IF "content" \notin DOMAIN body
    THEN Raised("KeyError")
    ELSE IF "asset" \notin DOMAIN body.content
    THEN Raised("KeyError")
    ELSE IF "id" \notin DOMAIN body.content.asset
    THEN Raised("KeyError")
    ELSE IF "values" \notin DOMAIN body.content
    THEN Raised("KeyError")
    ELSE LET results == [i \in DOMAIN body.content.values |->
                            value_datas(body.content.values[i])]
         IN  IF FirstRaised(results) # NoError
             THEN Raised(FirstRaised(results))
             ELSE Returned(AssetValues(
                      Asset(body.content.asset.id, Get(body.content.asset, "serial_number")),
                      Flatten([i \in DOMAIN results |-> results[i].value])))

\* model.py AssetValues.__eq__: the same asset and the same values in the
\* same order.
AssetValues_eq(x, y) ==
    /\ Asset_eq(x.asset, y.asset)
    /\ Len(x.values) = Len(y.values)
    /\ \A i \in DOMAIN x.values : AssetValue_eq(x.values[i], y.values[i])

\* The asset values an AssetValues holds.
AssetValueItems ==
    {AssetValue(key, u, v, ts).value :
        key \in {"k1", "k2"},
        u \in {Unit(<<1>>, PyNone, PyNone).value,
               Unit(PyNone, <<"degree_celsius">>, PyNone).value},
        v \in {1, 2},
        ts \in {PyNone, <<datetime("2021-11-04T08:19:35", 296000)>>}}

\* AssetValues of up to three values.
AssetValuesInstances ==
    {AssetValues(Asset(1, PyNone), values) :
        values \in {<<>>} \cup {<<a>> : a \in AssetValueItems}
                   \cup {<<a, b>> : a \in AssetValueItems, b \in AssetValueItems}
                   \cup {<<a, b, c>> : a \in AssetValueItems, b \in AssetValueItems,
                                       c \in AssetValueItems}}

\* The error classes of netilion/error.py.
ErrorClasses ==
    {"GenericNetilionApiError", "MalformedNetilionApiResponse", "InvalidNetilionApiState",
     "MalformedNetilionApiRequest", "BadNetilionApiPermission", "QuotaExceeded"}

\* repr() of a list of error entries, each a dict with the key "type":
\* [{'type': 'a'}, {'type': 'b'}], as the pieces of the string.
RECURSIVE repr_entries(_)
repr_entries(errors) ==
    IF errors = <<>> THEN <<>>
    ELSE <<"{'type': '", Head(errors).type, "'}">>
         \o (IF Tail(errors) = <<>> THEN <<>> ELSE <<", ">>)
         \o repr_entries(Tail(errors))

repr_list(errors) == <<"[">> \o repr_entries(errors) \o <<"]">>

\* repr() of a body {"errors": [...]}: {'errors': [...]}
repr_body(body) == <<"{'errors': ">> \o repr_list(body.errors) \o <<"}">>

\* repr() of a requests.Response: <Response [400]>
repr_response(response) == <<"<Response [">> \o Digits(response.status) \o <<"]>">>

\* error.py GenericNetilionApiError.__str__, inherited by every error class;
\* response is None (<<>>) or <<the response>>.
error_str(cls, response) ==
    IF response = PyNone
    THEN Returned(<<>>)
    ELSE IF response[1].headers.type # "dict"
    THEN Returned(<<cls, ": ">> \o repr_response(response[1]))
    ELSE IF response[1].headers.content_type = PyNone
    THEN Raised("TypeError")
    ELSE IF \E i \in DOMAIN response[1].headers.content_type[1] :
                response[1].headers.content_type[1][i] = "application/json"
    THEN Returned(<<cls, ": ">> \o repr_body(response[1].body))
    ELSE Returned(<<cls, ": ">> \o repr_response(response[1]))

\* The bodies of error responses: an errors array of up to two entries.
ErrorBodies ==
    {[errors |-> <<>>],
     [errors |-> <<[type |-> "error_type"]>>],
     [errors |-> <<[type |-> "n/a"], [type |-> "quota_exceeded"]>>]}

\* The responses an error is constructed with: headers that are a plain
\* dict (as the tests set them) or the CaseInsensitiveDict of requests,
\* with a JSON or another content type, or none.
ErrorResponses ==
    [status : {400, 500},
     headers : [type : {"dict", "CaseInsensitiveDict"},
                content_type : {PyNone, <<<<"application/json">>>>,
                                <<<<"application/json", "; charset=utf-8">>>>,
                                <<<<"application/xml">>>>}],
     body : ErrorBodies]

EntityInputs ==
    UnitArguments
    \cup [kind : {"instance"}, x : Instances]
    \cup [kind : {"instant"}, cls : {"AssetValue", "AssetValuesByKey"},
          seconds : SecondsTexts, millisecond : Millis]
    \cup [kind : {"body"}, body : AssetValueBodies]
    \cup [kind : {"history_entry"}, body : HistoryEntries]
    \cup [kind : {"history"}, body : HistoryBodies]
    \cup [kind : {"asset_values"}, x : AssetValuesInstances]
    \cup [kind : {"error"}, cls : ErrorClasses,
          response : {PyNone} \cup {<<r>> : r \in ErrorResponses}]

EntityInit ==
    /\ configuration = TestConfiguration
    /\ token = NoToken
    /\ my_application = NoValue
    /\ now = 0
    /\ last = NoOp
    /\ gma_called = FALSE
    /\ payload \in EntityInputs
    /\ parsed = NoValue

\* Unit(unit_id, code, name)
ConstructUnit ==
    /\ payload.kind = "unit_args"
    /\ parsed' = [op |-> "Unit",
                  result |-> Unit(payload.unit_id, payload.code, payload.name)]
    /\ UNCHANGED <<configuration, token, my_application, now, last, gma_called, payload>>

\* cls.deserialize(body) for the eight classes that are serialized too.
entity_deserialize(cls, body) ==
    CASE cls = "Asset" -> Asset_deserialize(body)
      [] cls = "WebHook" -> WebHook_deserialize(body)
      [] cls = "Unit" -> Unit_deserialize(body)
      [] cls = "AssetValue" -> AssetValue_deserialize(body)
      [] cls = "AssetValuesByKey" -> AssetValuesByKey_deserialize(body)
      [] cls = "NodeSpecification" -> NodeSpecification_deserialize(body)
      [] cls = "AssetHealthCondition" -> AssetHealthCondition_deserialize(body)
      [] cls = "Pagination" -> Pagination_deserialize(body)

\* type(x).deserialize(x.serialize())
round_trip(x) ==
    IF serialize(x).raised # NoError
    THEN serialize(x)
    ELSE entity_deserialize(x.kind, serialize(x).value)

RoundTrip ==
    /\ payload.kind = "instance"
    /\ parsed' = [op |-> "round_trip", result |-> round_trip(payload.x)]
    /\ UNCHANGED <<configuration, token, my_application, now, last, gma_called, payload>>

\* cls.deserialize_timestamp(x.serialize()["timestamp"]) for an x of class
\* cls whose timestamp is ts.
timestamp_round_trip(cls, ts) ==
    IF cls = "AssetValue"
    THEN AssetValue_deserialize_timestamp(
             AssetValue_serialize(
                 AssetValue("temperature", [code |-> "degree_celsius"], 21, <<ts>>).value
             ).timestamp)
    ELSE AssetValuesByKey_deserialize_timestamp(
             AssetValuesByKey_serialize(AssetValuesByKey(21, <<ts>>)).value.timestamp)

TimestampRoundTrip ==
    /\ payload.kind = "instant"
    /\ parsed' = [op |-> "timestamp_round_trip",
                  result |-> timestamp_round_trip(
                                 payload.cls,
                                 datetime(payload.seconds, payload.millisecond * 1000))]
    /\ UNCHANGED <<configuration, token, my_application, now, last, gma_called, payload>>

\* AssetValue.deserialize(body)
DeserializeAssetValue ==
    /\ payload.kind = "body"
    /\ parsed' = [op |-> "AssetValue.deserialize",
                  result |-> AssetValue_deserialize(payload.body)]
    /\ UNCHANGED <<configuration, token, my_application, now, last, gma_called, payload>>

\* AssetValuesByKey.parse_from_api(entry)
ParseHistoryEntry ==
    /\ payload.kind = "history_entry"
    /\ parsed' = [op |-> "AssetValuesByKey.parse_from_api",
                  result |-> AssetValuesByKey_parse_from_api(payload.body)]
    /\ UNCHANGED <<configuration, token, my_application, now, last, gma_called, payload>>

\* AssetValuesByKey.parse_multiple_from_api(body, "data")
ParseHistory ==
    /\ payload.kind = "history"
    /\ parsed' = [op |-> "AssetValuesByKey.parse_multiple_from_api",
                  result |-> AssetValuesByKey_parse_multiple_from_api(payload.body, "data")]
    /\ UNCHANGED <<configuration, token, my_application, now, last, gma_called, payload>>

\* x.serialize() for an AssetValues x
SerializeAssetValues ==
    /\ payload.kind = "asset_values"
    /\ parsed' = [op |-> "AssetValues.serialize",
                  result |-> Returned(AssetValues_serialize(payload.x))]
    /\ UNCHANGED <<configuration, token, my_application, now, last, gma_called, payload>>

\* AssetValues.deserialize(x.serialize()), and the same with the output
\* put under "content" as the API sends it.
AssetValuesRoundTrip ==
    /\ payload.kind = "asset_values"
    /\ \E body \in {AssetValues_serialize(payload.x),
                     [content |-> AssetValues_serialize(payload.x)]} :
           parsed' = [op |-> "AssetValues.round_trip",
                      result |-> AssetValues_deserialize(body)]
    /\ UNCHANGED <<configuration, token, my_application, now, last, gma_called, payload>>

\* str(cls(response))
RenderError ==
    /\ payload.kind = "error"
    /\ parsed' = [op |-> "str", result |-> error_str(payload.cls, payload.response)]
    /\ UNCHANGED <<configuration, token, my_application, now, last, gma_called, payload>>

EntityNext ==
    \/ ConstructUnit
    \/ RoundTrip
    \/ TimestampRoundTrip
    \/ DeserializeAssetValue
    \/ ParseHistoryEntry
    \/ ParseHistory
    \/ SerializeAssetValues
    \/ AssetValuesRoundTrip
    \/ RenderError

EntitySpec == EntityInit /\ [][EntityNext]_vars

\* C17: constructing a Unit with neither id nor code raises
\* MalformedNetilionApiResponse; with an id alone (any number, 0 included)
\* or with a code alone it succeeds and keeps what it was given.
C17_UnitNeedsIdOrCode ==
    (payload.kind = "unit_args" /\ parsed # NoValue)
        => /\ (payload.unit_id = PyNone /\ payload.code = PyNone)
               => parsed.result.raised = "MalformedNetilionApiResponse"
           /\ (payload.unit_id # PyNone /\ payload.code = PyNone)
               => /\ parsed.result.raised = "none"
                  /\ parsed.result.value.unit_id = payload.unit_id
           /\ (payload.unit_id = PyNone /\ payload.code = <<"parsec">>)
               => /\ parsed.result.raised = "none"
                  /\ parsed.result.value.code = payload.code

\* C18: for every instance x of the eight classes, deserializing what x
\* serializes to completes without error and gives an instance equal to x.
C18_RoundTripReproducesInstance ==
    (payload.kind = "instance" /\ parsed # NoValue)
        => /\ parsed.result.raised = "none"
           /\ Equal(payload.x, parsed.result.value)

\* C19: for every UTC instant with whole milliseconds 0..999, parsing the
\* timestamp string that AssetValue.serialize or AssetValuesByKey.serialize
\* writes, with the deserialize_timestamp of the same class, gives the
\* same instant.
C19_TimestampRoundTripIdentical ==
    (payload.kind = "instant" /\ parsed # NoValue)
        => parsed.result =
               Returned(<<datetime(payload.seconds, payload.millisecond * 1000)>>)

\* C20: AssetValue.deserialize never raises because of the timestamp: the
\* fractional-second and the whole-second form with a zone are read as the
\* instant they write, and an absent, empty or unparseable timestamp gives
\* an AssetValue whose timestamp is None.
C20_TimestampNeverRaises ==
    (payload.kind = "body" /\ parsed # NoValue)
        => /\ parsed.result.raised = "none"
           /\ parsed.result.value.timestamp =
                  IF "timestamp" \notin DOMAIN payload.body
                  THEN PyNone
                  ELSE IF payload.body.timestamp \in
                              {JsonString(<<s, ".", "1", "2", "3", "Z">>) : s \in SecondsTexts}
                  THEN <<datetime(payload.body.timestamp.chars[1], 123000)>>
                  ELSE IF payload.body.timestamp \in
                              {JsonString(<<s, "Z">>) : s \in SecondsTexts}
                  THEN <<datetime(payload.body.timestamp.chars[1], 0)>>
                  ELSE PyNone

\* C21: parsing a history entry that lacks "timestamp", alone or in a
\* collection, raises MalformedNetilionApiResponse, and no entry that is
\* returned is without a timestamp.
C21_HistoryTimestampRequired ==
    (payload.kind \in {"history_entry", "history"} /\ parsed # NoValue)
        => LET entries == IF payload.kind = "history_entry"
                          THEN <<payload.body>> ELSE payload.body.data
               returned == IF payload.kind = "history_entry"
                           THEN <<parsed.result.value>> ELSE parsed.result.value
           IN  /\ (\E i \in DOMAIN entries : "timestamp" \notin DOMAIN entries[i])
                      => parsed.result.raised = "MalformedNetilionApiResponse"
               /\ parsed.result.raised = "none"
                      => \A i \in DOMAIN returned : returned[i].timestamp # PyNone

Serialized == payload.kind = "asset_values" /\ parsed # NoValue
                  /\ parsed.op = "AssetValues.serialize"

\* C22: AssetValues.serialize writes one record per distinct key, the
\* records in ascending key order whatever the order of the values; the
\* data of a record are the values of its key in their input order, with
\* a timestamp only where the value has one; its unit is that of the first
\* value with the key; and there are as many data entries as values.
C22_SerializeGroupsByKey ==
    Serialized
        => LET values == payload.x.values
               records == parsed.result.value.values
               of_key(key) == SelectSeq(values, LAMBDA v : v.key = key)
           IN  /\ {records[i].key : i \in DOMAIN records}
                      = {values[i].key : i \in DOMAIN values}
               /\ \A i, j \in DOMAIN records :
                      i < j => Rank(records[i].key) < Rank(records[j].key)
               /\ \A i \in DOMAIN records :
                      /\ Len(records[i].data) = Len(of_key(records[i].key))
                      /\ \A n \in DOMAIN records[i].data :
                             /\ records[i].data[n].value = of_key(records[i].key)[n].value
                             /\ ("timestamp" \in DOMAIN records[i].data[n])
                                    <=> (of_key(records[i].key)[n].timestamp # PyNone)
                      /\ records[i].unit = Unit_serialize(of_key(records[i].key)[1].unit)
               /\ Len(Flatten([i \in DOMAIN records |-> records[i].data])) = Len(values)

\* Three values with keys k2, k1, k2 and two different units for k2 have
\* been serialized into two records.
C22_Witness ==
    /\ Serialized
    /\ Len(payload.x.values) = 3
    /\ payload.x.values[1].key = "k2"
    /\ payload.x.values[2].key = "k1"
    /\ payload.x.values[3].key = "k2"
    /\ payload.x.values[1].unit # payload.x.values[3].unit
    /\ payload.x.values[1].timestamp # payload.x.values[3].timestamp
    /\ Len(parsed.result.value.values) = 2

\* C23: deserializing what an AssetValues x serializes to completes without
\* error and gives an AssetValues equal to x: the same asset and the same
\* values in the same order.
C23_DeserializeInvertsSerialize ==
    (payload.kind = "asset_values" /\ parsed # NoValue
        /\ parsed.op = "AssetValues.round_trip")
        => /\ parsed.result.raised = "none"
           /\ AssetValues_eq(payload.x, parsed.result.value)

\* The content type of the response names JSON.
IsJsonResponse(response) ==
    /\ response.headers.content_type # PyNone
    /\ \E i \in DOMAIN response.headers.content_type[1] :
           response.headers.content_type[1][i] = "application/json"

\* C24: every error class renders alike: with a JSON response, its name,
\* ": " and the list under "errors" of the response (not the whole body);
\* with a response that is not JSON, its name and the description of the
\* response; without a response, the empty string.
C24_UniformRendering ==
    (payload.kind = "error" /\ parsed # NoValue)
        => parsed.result =
               IF payload.response = PyNone
               THEN Returned(<<>>)
               ELSE IF IsJsonResponse(payload.response[1])
               THEN Returned(<<payload.cls, ": ">>
                             \o repr_list(payload.response[1].body.errors))
               ELSE Returned(<<payload.cls, ": ">> \o repr_response(payload.response[1]))

-----------------------------------------------------------------------------
(* The read operations of netilion/client.py: a GET, then the body parsed. *)

UNIT == "/units/{unit_id}"

\* cls.parse_from_api(response.json())
read_one(cls, response) ==
    IF ResponseJson(response).raised # NoError
    THEN ResponseJson(response)
    ELSE cls_parse_from_api(cls, response.body)

\* cls.parse_multiple_from_api(response.json(), under_key)
read_many(cls, under_key, response) ==
    IF ResponseJson(response).raised # NoError
    THEN ResponseJson(response)
    ELSE cls_parse_multiple_from_api(cls, response.body, under_key)

\* (a read that refuses every status from 300 on before it looks at the body)
get_asset_outcomeMutByStatus(response) ==
    IF response.status >= 300
    THEN Raised(ErrorInit("InvalidNetilionApiState", {}))
    ELSE read_one("Asset", response)

\* client.py get_asset, line 138
get_asset_outcome(response) == read_one("Asset", response)

\* client.py get_assets, line 134
get_assets_outcome(response) == read_many("Asset", "assets", response)

\* client.py get_unit, line 184
get_unit_outcome(response) == read_one("Unit", response)

\* client.py get_webhook, line 243
get_webhook_outcome(response) == read_one("WebHook", response)

GetAsset ==
    \E env \in Envs :
        \E sent \in {get(configuration, token, now,
                         construct_url_values(configuration, ASSET, <<1>>), <<>>, env)} :
            \E outcome \in {IF sent.raised # "none" THEN Raised(sent.raised)
                            ELSE get_asset_outcome(sent.response)} :
                Perform("get_asset", sent, outcome)

GetAssets ==
    \E env \in Envs :
        \E sent \in {get(configuration, token, now,
                         construct_url(configuration, ASSETS), <<>>, env)} :
            \E outcome \in {IF sent.raised # "none" THEN Raised(sent.raised)
                            ELSE get_assets_outcome(sent.response)} :
                Perform("get_assets", sent, outcome)

GetUnit ==
    \E env \in Envs :
        \E sent \in {get(configuration, token, now,
                         construct_url_values(configuration, UNIT, <<8409>>), <<>>, env)} :
            \E outcome \in {IF sent.raised # "none" THEN Raised(sent.raised)
                            ELSE get_unit_outcome(sent.response)} :
                Perform("get_unit", sent, outcome)

GetWebhook ==
    \E env \in Envs :
        \E sent \in {get(configuration, token, now,
                         construct_url_values(configuration, WEBHOOK,
                             <<my_application_id(configuration, my_application), 99>>),
                         <<>>, env)} :
            \E outcome \in {IF sent.raised # "none" THEN Raised(sent.raised)
                            ELSE get_webhook_outcome(sent.response)} :
                Perform("get_webhook", sent, outcome)

ReadNext ==
    \/ GetAsset
    \/ GetAssets
    \/ GetUnit
    \/ GetWebhook

ReadSpec == WriteInit /\ [][ReadNext]_vars

\* What the read operation op makes of a response.
ReadOutcome(op, response) ==
    CASE op = "get_asset" -> get_asset_outcome(response)
      [] op = "get_assets" -> get_assets_outcome(response)
      [] op = "get_unit" -> get_unit_outcome(response)
      [] op = "get_webhook" -> get_webhook_outcome(response)

ReadOperations == {"get_asset", "get_assets", "get_unit", "get_webhook"}

\* C25: what a read operation returns or raises depends on the JSON body
\* alone: the same body answered with any other status gives the same
\* entity or the same error.
C25_ReadOutcomeIgnoresStatus ==
    Answered(ReadOperations)
        => \A status \in WriteStatuses :
               ReadOutcome(last.op, [last.response EXCEPT !.status = status])
                   = [raised |-> last.raised, value |-> last.value]

\* A read answered 500 with a well-formed entity has returned the entity,
\* and so it would have if answered 200.
C25_Witness ==
    /\ Answered({"get_asset"})
    /\ last.response.status = 500
    /\ last.raised = "none"
    /\ last.value.kind = "Asset"
    /\ ReadOutcome("get_asset", [last.response EXCEPT !.status = 200]).value = last.value

-----------------------------------------------------------------------------
(* The request layer with a token URL that need not lie under the          *)
(* configured endpoint: the configuration takes oauth_token_url as it is   *)
(* given (config.py, line 25), and the caller may assign it.               *)

ForeignTokenUrl == ForeignUrl \o <<"/oauth/token/">>

TokenUrls == {TokenUrl, ForeignTokenUrl}

AuthInit ==
    /\ configuration \in {[TestConfiguration EXCEPT !.oauth_token_url = u] : u \in TokenUrls}
    /\ token = NoToken
    /\ my_application = NoValue
    /\ now = 0
    /\ last = NoOp
    /\ gma_called = FALSE
    /\ payload = NoValue
    /\ parsed = NoValue

\* The caller assigns the token URL of the configuration.
SetTokenUrl ==
    \E u \in TokenUrls :
        /\ u # configuration.oauth_token_url
        /\ configuration' = [configuration EXCEPT !.oauth_token_url = u]
        /\ UNCHANGED <<token, my_application, now, last, gma_called, payload, parsed>>

\* A caller invokes request(method, url, **kwargs) for an API URL or for
\* the configured token URL.
AuthRequest ==
    \E names \in {{}, {"json"}},
       url \in {construct_url(configuration, ASSETS), configuration.oauth_token_url},
       tr \in TokenResponses(now), rr \in Responses :
        \E r \in {request(configuration, token, now, "POST", url, KwargsOf(names), FALSE,
                          [token_response |-> tr, response |-> rr], 1)} :
            /\ token' = r.token
            /\ last' = [op |-> "request", method |-> "POST", url |-> url,
                        kwargs |-> KwargsOf(names),
                        calls |-> r.calls, raised |-> r.raised,
                        response |-> r.response, depth |-> r.depth]
            /\ UNCHANGED <<configuration, my_application, now, gma_called, payload, parsed>>

AuthNext ==
    \/ Tick
    \/ SetTokenUrl
    \/ AuthRequest

AuthSpec == AuthInit /\ [][AuthNext]_vars

\* No token is held, or the held token has run out.
NeedsToken == token = NoToken \/ now >= token.created_at + token.expires_in

\* The calls of a request that went to the configured token URL.
TokenCalls(calls) == {i \in DOMAIN calls : IsTokenCall(calls[i])}

\* C26: request() ends once the transport has answered: it is never nested
\* more than two deep and never gives up with RecursionError, a request
\* makes at most one call to the token URL, and where the token URL lies
\* under the endpoint the nested token request is sent as it is, as the
\* first call, without a token acquisition of its own.
C26_NestedAtMostTwoDeep ==
    [][RequestStep
        => /\ last'.depth <= 2
           /\ last'.raised # "RecursionError"
           /\ Cardinality(TokenCalls(last'.calls)) <= 1
           /\ (ToApi(last'.url) /\ NeedsToken)
                  => /\ last'.depth = 2
                     /\ UnderEndpoint(configuration.oauth_token_url)
                            => TokenCalls(last'.calls) = {1}]_vars

\* A request that had to fetch a token went two deep, made its one token
\* call and then the real call.
C26_Witness ==
    /\ last.op = "request"
    /\ last.depth = 2
    /\ last.raised = "none"
    /\ Len(last.calls) = 2
    /\ IsTokenCall(last.calls[1])
    /\ last.calls[1].kwargs.data.grant_type = "password"

\* The request recorded in l tried to acquire a token and did not get one:
\* it went two deep, raised, and made no call to the URL it was for.
AcquisitionFailed(l) ==
    /\ l.op = "request"
    /\ l.depth = 2
    /\ l.raised # "none"
    /\ \A i \in DOMAIN l.calls : l.calls[i].url # l.url

\* C27: when the token acquisition of a request to a non-token URL fails,
\* the real request is not sent, the request raises, and the token held
\* before (none, or the expired one) is still held; and the next request
\* to a non-token URL tries to acquire a token again.
C27_FailedAcquisitionKeepsToken ==
    [][(RequestStep /\ ToApi(last'.url))
        => /\ (NeedsToken /\ ~(\E i \in TokenCalls(last'.calls) :
                                   last'.calls[i].answer.kind = "token"))
                  => /\ last'.raised # "none"
                     /\ \A i \in DOMAIN last'.calls : last'.calls[i].url # last'.url
                     /\ token' = token
           /\ AcquisitionFailed(last)
                  => /\ NeedsToken
                     /\ last'.depth = 2]_vars

\* The refresh of an expired token failed at the token endpoint and the
\* expired token is still held.
C27_Witness ==
    /\ AcquisitionFailed(last)
    /\ Len(last.calls) = 1
    /\ last.calls[1].kwargs.data.grant_type = "refresh_token"
    /\ token # NoToken
    /\ now >= token.created_at + token.expires_in

\* C29: while the configured token URL does not start with the configured
\* endpoint, a request to a non-token URL made without a valid token raises
\* the host-mismatch error (RuntimeError), from the nested token request
\* where the URL itself passes the guard, and makes no call at all: neither
\* the token call nor the real call.
C29_HostGuardOnTokenUrl ==
    [][(RequestStep /\ last'.url # configuration.oauth_token_url
            /\ ~UnderEndpoint(configuration.oauth_token_url) /\ NeedsToken)
        => /\ last'.raised = "RuntimeError"
           /\ last'.calls = <<>>
           /\ token' = token
           /\ UnderEndpoint(last'.url) => last'.depth = 2]_vars

\* With a foreign token URL, the refresh of an expired token was refused
\* by the host guard.
C29_Witness ==
    /\ last.op = "request"
    /\ ~UnderEndpoint(configuration.oauth_token_url)
    /\ UnderEndpoint(last.url)
    /\ last.raised = "RuntimeError"
    /\ last.depth = 2
    /\ token # NoToken

-----------------------------------------------------------------------------
(* The my-application memo (AppSpec).                                      *)

\* C28: the memo is written only by a get_my_application call that found
\* no memo and no configured pair, fetched the current-application endpoint
\* once and parsed a descriptor, which it stores; once written the memo
\* never changes; a call that raises leaves the memo unset and the next
\* call without a configured pair fetches again; a call answered from the
\* configuration leaves the memo alone; and a memo that is set is returned
\* without a network call whatever the configuration supplies.
C28_MemoWrittenOnceByFetch ==
    [][/\ my_application' # my_application
           => /\ GmaStep
              /\ my_application = NoValue
              /\ ~SuppliesApplication
              /\ last'.raised = "none"
              /\ Cardinality(CurrentApplicationCalls(last'.calls)) = 1
              /\ my_application' = last'.value
              /\ my_application' # NoValue
       /\ (GmaStep /\ last'.raised # "none")
           => /\ my_application = NoValue
              /\ my_application' = NoValue
       /\ (GmaStep /\ last.op = "get_my_application" /\ last.raised # "none"
               /\ ~SuppliesApplication)
           => last'.calls # <<>>
       /\ (GmaStep /\ my_application # NoValue)
           => /\ last'.calls = <<>>
              /\ last'.raised = "none"
              /\ last'.value = my_application]_vars

\* The memoized descriptor was returned, without a call, while the
\* configuration supplied a different pair.
C28_Witness ==
    /\ last.op = "get_my_application"
    /\ my_application # NoValue
    /\ SuppliesApplication
    /\ my_application # ConfiguredApplication
    /\ last.value = my_application
    /\ last.calls = <<>>
    /\ gma_called

-----------------------------------------------------------------------------
(* Payloads that carry an "errors" key (ModelSpec).                        *)

\* C30: a payload with an "errors" key never parses to an entity or to a
\* collection: parse_from_api and parse_multiple_from_api raise for it,
\* also when the rest of the payload is a well-formed entity, and an empty
\* errors array raises GenericNetilionApiError.
C30_ErrorsKeyAlwaysRaises ==
    (parsed # NoValue /\ "errors" \in DOMAIN payload)
        => /\ parsed.result.raised # "none"
           /\ parsed.result.value = NoValue
           /\ payload.errors = <<>>
                  => parsed.result.raised = "GenericNetilionApiError"

====
